---- MODULE Spec2Model ----
(***************************************************************************)
(* Model of the reconciliation engine of SusScanner (src/utils/csv.ts,     *)
(* buildDownloadCsvRowsStrict and its helpers), of the numeric helpers of  *)
(* App.tsx and of the worker pool of api.ts (scanEach).                    *)
(*                                                                         *)
(* JavaScript values are tagged records:                                   *)
(*   [t |-> "undefined"], [t |-> "null"], [t |-> "boolean", b |-> ...],    *)
(*   [t |-> "number", n |-> k]   a finite number, k in units of 1/Unit,    *)
(*   [t |-> "nan"], [t |-> "inf"], [t |-> "ninf"]  the non-finite numbers, *)
(*   [t |-> "string", s |-> <<c1, ..., cn>>]  a string as its characters,  *)
(*   [t |-> "object", e |-> <<[k |-> key, v |-> value], ...>>] an object   *)
(*   as its own enumerable entries in insertion order,                     *)
(*   [t |-> "array", a |-> <<v1, ..., vn>>].                               *)
(* Finite numbers are decimal fixed point: the binary rounding noise of    *)
(* IEEE doubles is not modelled.                                           *)
(***************************************************************************)
EXTENDS Integers, Sequences, FiniteSets, TLC

VARIABLES
    arg,          \* helper call: the raw argument
    fn,           \* the function that was called ("none" before the call)
    out,          \* helper call: the value returned
    finishedRows, \* buildDownloadCsvRowsStrict: the rows [username, result] given
    csvByUser,    \* buildDownloadCsvRowsStrict: lower-cased username -> side-table row
    normIndex,    \* the __normIndex property of each side-table row (undefined: none)
    outRows,      \* the array buildDownloadCsvRowsStrict returned (empty before the call)
    calls,        \* how many lookups or passes were made over the side table
    usernames,    \* scanEach: the list given
    concurrency,  \* scanEach: the concurrency given
    nextI,        \* scanEach: the index i shared by the workers
    workers,      \* scanEach: per worker, where it is and the list position it scans
    started,      \* scanEach: the list positions scan was called for, in call order
    reported,     \* scanEach: the calls of onPartial, each with its list position
    promise,      \* scanEach: "none" before the call, then "pending", then "resolved"
    rows,         \* App: the rows of the results table (React state)
    rawCsvRows,   \* App: the memo of buildRawCsvRows(completedRows)
    list,         \* runScans: the names submitted, after uniqUsernames
    at,           \* runScans: the place in list of the name being scanned (0: none)
    busy,         \* App: a run is in progress
    err           \* App: the error banner ("" for none)

callVars == <<arg, fn, out>>
downloadVars == <<finishedRows, csvByUser, normIndex, outRows>>
scanVars == <<usernames, concurrency, nextI, workers, started, reported, promise>>
tableVars == <<rows, rawCsvRows>>
runVars == <<list, at, busy, err>>
appVars == <<scanVars, tableVars, runVars>>
vars == <<arg, fn, out, finishedRows, csvByUser, normIndex, outRows, calls, appVars>>

\* scanEach is not called
ScanIdle ==
    /\ usernames = <<>>
    /\ concurrency = 0
    /\ nextI = 0
    /\ workers = <<>>
    /\ started = <<>>
    /\ reported = <<>>
    /\ promise = "none"

\* no run of scans was made: the results table is empty
RunIdle ==
    /\ rows = <<>>
    /\ rawCsvRows = <<>>
    /\ list = <<>>
    /\ at = 0
    /\ busy = FALSE
    /\ err = ""

\* nothing of the application around the reconciliation engine is running
AppIdle == ScanIdle /\ RunIdle

(***************************************************************************)
(* Numbers                                                                 *)
(***************************************************************************)
\* units per 1.0 of the fixed-point representation (five decimals)
Unit == 10 * 10 * 10 * 10 * 10

Undefined == [t |-> "undefined"]
Null      == [t |-> "null"]
NaN       == [t |-> "nan"]
PosInf    == [t |-> "inf"]
NegInf    == [t |-> "ninf"]
Num(k)    == [t |-> "number", n |-> k]
Str(s)    == [t |-> "string", s |-> s]
Bool(b)   == [t |-> "boolean", b |-> b]
Obj(e)    == [t |-> "object", e |-> e]
Arr(a)    == [t |-> "array", a |-> a]

\* typeof v
TypeOf(v) ==
    CASE v.t \in {"number", "nan", "inf", "ninf"} -> "number"
      [] v.t = "string"    -> "string"
      [] v.t = "boolean"   -> "boolean"
      [] v.t = "undefined" -> "undefined"
      [] OTHER             -> "object"

\* v == null  (loose equality: null or undefined)
IsNullish(v) == v.t \in {"null", "undefined"}

\* Number.isFinite(v) for a value of type number
IsFinite(v) == v.t = "number"

\* a ?? b
Coalesce(a, b) == IF IsNullish(a) THEN b ELSE a

Digits == {"0", "1", "2", "3", "4", "5", "6", "7", "8", "9"}

DigitVal(c) ==
    CASE c = "0" -> 0 [] c = "1" -> 1 [] c = "2" -> 2 [] c = "3" -> 3
      [] c = "4" -> 4 [] c = "5" -> 5 [] c = "6" -> 6 [] c = "7" -> 7
      [] c = "8" -> 8 [] c = "9" -> 9

\* a rounding that sends a tie away from zero
MathRoundHalfAway(a, d) ==
    IF a >= 0 THEN (2 * a + d) \div (2 * d) ELSE 0 - ((2 * (0 - a) + d) \div (2 * d))

\* Math.round(a / d) for an integer a and d > 0: the nearest integer, a tie
\* going towards +Infinity (ECMAScript Math.round is floor(x + 0.5))
MathRound(a, d) == (2 * a + d) \div (2 * d)

(***************************************************************************)
(* v.match(/-?\d+(\.\d+)?/) on a string s: the leftmost match, each        *)
(* quantifier greedy.  A match can only start at the first digit of s or   *)
(* at a '-' right before it.                                               *)
(***************************************************************************)
\* index of the first character of s at or after i that is not a digit
RECURSIVE DigitRunEnd(_, _)
DigitRunEnd(s, i) ==
    IF i <= Len(s) /\ s[i] \in Digits THEN DigitRunEnd(s, i + 1) ELSE i

\* index of the first digit of s at or after i, or 0
RECURSIVE FirstDigit(_, _)
FirstDigit(s, i) ==
    IF i > Len(s) THEN 0
    ELSE IF s[i] \in Digits THEN i
    ELSE FirstDigit(s, i + 1)

\* a match that never takes the sign: /\d+(\.\d+)?/
NumeralMatchUnsigned(s) ==
    LET d == FirstDigit(s, 1) IN
    IF d = 0 THEN [from |-> 0, to |-> 0]
    ELSE LET ie == DigitRunEnd(s, d)
             fe == IF ie + 1 <= Len(s) /\ s[ie] = "." /\ s[ie + 1] \in Digits
                   THEN DigitRunEnd(s, ie + 1)
                   ELSE ie
         IN  [from |-> d, to |-> fe - 1]

\* m[0] of the match as [from, to], or [from |-> 0] when there is no match
NumeralMatch(s) ==
    LET d == FirstDigit(s, 1) IN
    IF d = 0 THEN [from |-> 0, to |-> 0]
    ELSE LET from == IF d > 1 /\ s[d - 1] = "-" THEN d - 1 ELSE d
             ie   == DigitRunEnd(s, d)
             fe   == IF ie + 1 <= Len(s) /\ s[ie] = "." /\ s[ie + 1] \in Digits
                     THEN DigitRunEnd(s, ie + 1)
                     ELSE ie
         IN  [from |-> from, to |-> fe - 1]

\* value of a digit string as an integer, most significant digit first
RECURSIVE DigitsValue(_, _)
DigitsValue(ds, acc) ==
    IF ds = <<>> THEN acc
    ELSE DigitsValue(Tail(ds), 10 * acc + DigitVal(Head(ds)))

RECURSIVE Pow10(_)
Pow10(k) == IF k = 0 THEN 1 ELSE 10 * Pow10(k - 1)

\* parseFloat(tok) of a token -?\d+(\.\d+)? in units of 1/Unit
ParseFloat(tok) ==
    LET neg  == Head(tok) = "-"
        body == IF neg THEN Tail(tok) ELSE tok
        ie   == DigitRunEnd(body, 1)
        ip   == SubSeq(body, 1, ie - 1)
        fp   == SubSeq(body, ie + 1, Len(body))
        mag  == DigitsValue(ip, 0) * Unit
                  + (DigitsValue(fp, 0) * Unit) \div Pow10(Len(fp))
    IN  Num(IF neg THEN 0 - mag ELSE mag)

\* Number.isFinite(n) ? n : null
FiniteOrNull(n) == IF IsFinite(n) THEN n ELSE Null

\* if (!m) return null; const n = parseFloat(m[0]); ...  for the match m in s
MatchedNumber(s, m) ==
    IF m.from = 0 THEN Null ELSE FiniteOrNull(ParseFloat(SubSeq(s, m.from, m.to)))

\* num of csv.ts: a finite number or null
num(v) ==
    IF IsNullish(v) THEN Null
    ELSE IF TypeOf(v) = "number" THEN FiniteOrNull(v)
    ELSE IF TypeOf(v) = "string" THEN MatchedNumber(v.s, NumeralMatch(v.s))
    ELSE Null

\* toNumberOrNull of App.tsx
toNumberOrNull(v) ==
    IF IsNullish(v) THEN Null
    ELSE IF TypeOf(v) = "number" THEN FiniteOrNull(v)
    ELSE IF TypeOf(v) = "string" THEN MatchedNumber(v.s, NumeralMatch(v.s))
    ELSE Null

\* Math.round(p * 10) / 10 of a number p given in units: p * 10 is
\* p / (Unit / 10) tenths
Round1(p) == MathRound(p, Unit \div 10) * (Unit \div 10)

\* Math.round(n * 1000) / 1000 of a number n given in units
Round3(n) == MathRound(n, Unit \div 1000) * (Unit \div 1000)

\* a threshold that takes 1 for a percentage:  n < 1 ? n * 100 : n
IsFractionStrict(n) == n < Unit

\* the threshold of  n <= 1 ? n * 100 : n
IsFraction(n) == n <= Unit

\* if (n == null) return null; const p = n <= 1 ? n * 100 : n;
\* return Math.round(p * 10) / 10;   for the coerced n
Percent(n) ==
    IF IsNullish(n) THEN Null
    ELSE Num(Round1(IF IsFraction(n.n) THEN n.n * 100 ELSE n.n))

\* if (n == null) return null; return Math.round(n * 1000) / 1000;
Ratio(n) == IF IsNullish(n) THEN Null ELSE Num(Round3(n.n))

\* pct of csv.ts
pct(v) == Percent(num(v))

\* pctNumber of App.tsx
pctNumber(v) == Percent(toNumberOrNull(v))

\* rat of csv.ts
rat(v) == Ratio(num(v))

\* ratio3 of App.tsx
ratio3(v) == Ratio(toNumberOrNull(v))

\* sumNN that takes an unknown operand for zero
sumZeroForUnknown(a, b) ==
    IF IsNullish(a) /\ IsNullish(b) THEN Null
    ELSE Num((IF IsNullish(a) THEN 0 ELSE a.n) + (IF IsNullish(b) THEN 0 ELSE b.n))

\* sumNN of csv.ts
sumNN(a, b) == IF IsNullish(a) \/ IsNullish(b) THEN Null ELSE Num(a.n + b.n)

(***************************************************************************)
(* Objects, dotted paths and the side-table lookup                         *)
(***************************************************************************)
\* the outcome of an expression that raises
Thrown == [t |-> "throw"]

\* o[k]: a TypeError for null and undefined, an own entry of an object,
\* undefined otherwise (the keys looked up are never inherited properties,
\* array indices or "length")
GetProp(o, k) ==
    IF IsNullish(o) THEN Thrown
    ELSE IF o.t = "object" /\ \E i \in 1..Len(o.e) : o.e[i].k = k
    THEN o.e[CHOOSE i \in 1..Len(o.e) : o.e[i].k = k].v
    ELSE Undefined

\* p.split(".").reduce((o, k) => (o == null ? undefined : o[k]), obj),
\* p given as its components; an exception ends the reduction
RECURSIVE Descend(_, _)
Descend(o, p) ==
    IF p = <<>> \/ o.t = "throw" THEN o
    ELSE Descend(IF IsNullish(o) THEN Undefined ELSE GetProp(o, Head(p)), Tail(p))

\* try { ... } catch {}: an exception leaves the value undefined
Caught(v) == IF v.t = "throw" THEN Undefined ELSE v

\* pick that stops at the first path, whatever it resolves to
pickFirstPathOnly(obj, paths) ==
    IF paths = <<>> THEN Undefined ELSE Caught(Descend(obj, Head(paths)))

\* pick of csv.ts: the first path that resolves to a non-nullish value
RECURSIVE pick(_, _)
pick(obj, paths) ==
    IF paths = <<>> THEN Undefined
    ELSE Coalesce(Caught(Descend(obj, Head(paths))), pick(obj, Tail(paths)))

\* pick of App.tsx: paths is an array of paths (arr) or one path, dflt the
\* value returned when no path resolves
RECURSIVE pickPaths(_, _, _)
pickPaths(obj, paths, dflt) ==
    IF paths = <<>> THEN dflt
    ELSE Coalesce(Caught(Descend(obj, Head(paths))), pickPaths(obj, Tail(paths), dflt))

pickApp(obj, paths, dflt) ==
    IF paths.arr THEN pickPaths(obj, paths.ps, dflt)
    ELSE Coalesce(Caught(Descend(obj, paths.p)), dflt)

Letters ==
    << <<"A", "a">>, <<"B", "b">>, <<"C", "c">>, <<"D", "d">>, <<"E", "e">>,
       <<"F", "f">>, <<"G", "g">>, <<"H", "h">>, <<"I", "i">>, <<"J", "j">>,
       <<"K", "k">>, <<"L", "l">>, <<"M", "m">>, <<"N", "n">>, <<"O", "o">>,
       <<"P", "p">>, <<"Q", "q">>, <<"R", "r">>, <<"S", "s">>, <<"T", "t">>,
       <<"U", "u">>, <<"V", "v">>, <<"W", "w">>, <<"X", "x">>, <<"Y", "y">>,
       <<"Z", "z">> >>

UpperCaseLetters == {Letters[i][1] : i \in 1..26}
LowerCaseLetters == {Letters[i][2] : i \in 1..26}

\* c.toLowerCase() of one character ("U+0394", the capital delta, becomes
\* the small delta "U+03B4"; other characters are unchanged)
ToLowerChar(c) ==
    IF c \in UpperCaseLetters
    THEN Letters[CHOOSE i \in 1..26 : Letters[i][1] = c][2]
    ELSE IF c = "U+0394" THEN "U+03B4" ELSE c

ToLowerCase(s) == [i \in 1..Len(s) |-> ToLowerChar(s[i])]

\* [a-z0-9]
IsLowerAlnum(c) == c \in Digits \/ c \in LowerCaseLetters

\* norm of csv.ts on a string given as its characters:
\* s.toLowerCase().replace(/[^a-z0-9]+/g, "")
norm(s) == SelectSeq(ToLowerCase(s), IsLowerAlnum)

\* the index built by getCSV: for (const [k, v] of Object.entries(csv))
\* idx[norm(k)] = v, as the sequence of its entries; a key written again
\* keeps its place and takes the new value
IndexPut(idx, k, v) ==
    IF \E i \in 1..Len(idx) : idx[i].k = k
    THEN [i \in 1..Len(idx) |-> IF idx[i].k = k THEN [k |-> k, v |-> v] ELSE idx[i]]
    ELSE Append(idx, [k |-> k, v |-> v])

RECURSIVE BuildIndex(_, _)
BuildIndex(entries, idx) ==
    IF entries = <<>> THEN idx
    ELSE BuildIndex(Tail(entries),
                    IndexPut(idx, norm(Head(entries).k), Head(entries).v))

\* !csv || typeof csv !== "object"
NotARow(csv) == TypeOf(csv) # "object" \/ csv.t = "null"

\* the property name "__normIndex"
NormIndexKey == <<"_", "_", "n", "o", "r", "m", "I", "n", "d", "e", "x">>

\* !v is false
Truthy(v) ==
    /\ ~IsNullish(v)
    /\ v.t # "nan"
    /\ v.t = "number" => v.n # 0
    /\ v.t = "string" => v.s # <<>>
    /\ v.t = "boolean" => v.b

\* csv.__normIndex as read: the non-enumerable property defined by an
\* earlier getCSV (cache) when there is one, else the row's own entry of
\* that name, else undefined
ReadNormIndex(csv, cache) ==
    IF cache.t # "undefined" THEN cache ELSE GetProp(csv, NormIndexKey)

\* csv.__normIndex after the first lines of getCSV on csv: what was there
\* when it is truthy, else the index built now
NormIndexOf(csv, cache) ==
    IF Truthy(ReadNormIndex(csv, cache)) THEN ReadNormIndex(csv, cache)
    ELSE Obj(BuildIndex(csv.e, <<>>))

\* the row object after getCSV: Object.defineProperty(csv, "__normIndex",
\* { value: idx, enumerable: false }) makes an own entry of that name
\* non-enumerable and replaces its value; every other entry is left alone
RowAfterLookup(csv, cache) ==
    IF NotARow(csv) \/ Truthy(ReadNormIndex(csv, cache)) THEN csv
    ELSE Obj(SelectSeq(csv.e, LAMBDA x : x.k # NormIndexKey))

\* the property defined with an index that was never filled
CacheAfterLookupEmpty(csv, cache) ==
    IF NotARow(csv) \/ Truthy(ReadNormIndex(csv, cache)) THEN cache
    ELSE Obj(<<>>)

\* the non-enumerable __normIndex of the row object after getCSV
CacheAfterLookup(csv, cache) ==
    IF NotARow(csv) \/ Truthy(ReadNormIndex(csv, cache)) THEN cache
    ELSE NormIndexOf(csv, cache)

\* the lookup loop of getCSV over idx
RECURSIVE LookupAliases(_, _)
LookupAliases(idx, aliases) ==
    IF aliases = <<>> THEN Undefined
    ELSE Coalesce(GetProp(idx, norm(Head(aliases))),
                  LookupAliases(idx, Tail(aliases)))

\* getCSV of csv.ts, given the cache csv.__normIndex (undefined: none yet)
getCSV(csv, cache, aliases) ==
    IF NotARow(csv) THEN Undefined
    ELSE LookupAliases(NormIndexOf(csv, cache), aliases)

(***************************************************************************)
(* The alias bundles A, each alias as its characters                       *)
(***************************************************************************)
\* the alias bundles: const A = { ... }
A ==
  [
    \* suspicion: suspicion_score, suspicion, score   (csv.ts line 250)
    suspicion |->
        << <<"s", "u", "s", "p", "i", "c", "i", "o", "n", "_", "s", "c", "o", "r", "e">>,
           <<"s", "u", "s", "p", "i", "c", "i", "o", "n">>,
           <<"s", "c", "o", "r", "e">> >>,
    \* recentGames: recent_games, recent games, games, lifetime_games, lifetime games   (csv.ts line 252)
    recentGames |->
        << <<"r", "e", "c", "e", "n", "t", "_", "g", "a", "m", "e", "s">>,
           <<"r", "e", "c", "e", "n", "t", " ", "g", "a", "m", "e", "s">>,
           <<"g", "a", "m", "e", "s">>,
           <<"l", "i", "f", "e", "t", "i", "m", "e", "_", "g", "a", "m", "e", "s">>,
           <<"l", "i", "f", "e", "t", "i", "m", "e", " ", "g", "a", "m", "e", "s">> >>,
    \* recentWins: recent_wins, recent wins, wins   (csv.ts line 253)
    recentWins |->
        << <<"r", "e", "c", "e", "n", "t", "_", "w", "i", "n", "s">>,
           <<"r", "e", "c", "e", "n", "t", " ", "w", "i", "n", "s">>,
           <<"w", "i", "n", "s">> >>,
    \* recentDraws: recent_draws, recent draws, draws   (csv.ts line 254)
    recentDraws |->
        << <<"r", "e", "c", "e", "n", "t", "_", "d", "r", "a", "w", "s">>,
           <<"r", "e", "c", "e", "n", "t", " ", "d", "r", "a", "w", "s">>,
           <<"d", "r", "a", "w", "s">> >>,
    \* recentLosses: recent_losses, recent losses, losses   (csv.ts line 255)
    recentLosses |->
        << <<"r", "e", "c", "e", "n", "t", "_", "l", "o", "s", "s", "e", "s">>,
           <<"r", "e", "c", "e", "n", "t", " ", "l", "o", "s", "s", "e", "s">>,
           <<"l", "o", "s", "s", "e", "s">> >>,
    \* streak: win_streak, streak, stk   (csv.ts line 257)
    streak |->
        << <<"w", "i", "n", "_", "s", "t", "r", "e", "a", "k">>,
           <<"s", "t", "r", "e", "a", "k">>,
           <<"s", "t", "k">> >>,
    \* maxStreak: max_win_streak, max streak, maxstk, max win streak   (csv.ts line 258)
    maxStreak |->
        << <<"m", "a", "x", "_", "w", "i", "n", "_", "s", "t", "r", "e", "a", "k">>,
           <<"m", "a", "x", " ", "s", "t", "r", "e", "a", "k">>,
           <<"m", "a", "x", "s", "t", "k">>,
           <<"m", "a", "x", " ", "w", "i", "n", " ", "s", "t", "r", "e", "a", "k">> >>,
    \* upsetWins: upset_wins, upsets, upset   (csv.ts line 259)
    upsetWins |->
        << <<"u", "p", "s", "e", "t", "_", "w", "i", "n", "s">>,
           <<"u", "p", "s", "e", "t", "s">>,
           <<"u", "p", "s", "e", "t">> >>,
    \* shortWinRate: short_win_rate, short win rate, shortw%, short_win%, shortwin%   (csv.ts line 261)
    shortWinRate |->
        << <<"s", "h", "o", "r", "t", "_", "w", "i", "n", "_", "r", "a", "t", "e">>,
           <<"s", "h", "o", "r", "t", " ", "w", "i", "n", " ", "r", "a", "t", "e">>,
           <<"s", "h", "o", "r", "t", "w", "%">>,
           <<"s", "h", "o", "r", "t", "_", "w", "i", "n", "%">>,
           <<"s", "h", "o", "r", "t", "w", "i", "n", "%">> >>,
    \* timeoutWinRatio: timeout_win_ratio, timeout win ratio, to/res%, timeout%   (csv.ts line 262)
    timeoutWinRatio |->
        << <<"t", "i", "m", "e", "o", "u", "t", "_", "w", "i", "n", "_", "r", "a", "t", "i", "o">>,
           <<"t", "i", "m", "e", "o", "u", "t", " ", "w", "i", "n", " ", "r", "a", "t", "i", "o">>,
           <<"t", "o", "/", "r", "e", "s", "%">>,
           <<"t", "i", "m", "e", "o", "u", "t", "%">> >>,
    \* tGames: t_games, t games, tournament_games, tournament games   (csv.ts line 264)
    tGames |->
        << <<"t", "_", "g", "a", "m", "e", "s">>,
           <<"t", " ", "g", "a", "m", "e", "s">>,
           <<"t", "o", "u", "r", "n", "a", "m", "e", "n", "t", "_", "g", "a", "m", "e", "s">>,
           <<"t", "o", "u", "r", "n", "a", "m", "e", "n", "t", " ", "g", "a", "m", "e", "s">> >>,
    \* tWins: t_wins, t wins, tournament_wins, tournament wins, tw   (csv.ts line 265)
    tWins |->
        << <<"t", "_", "w", "i", "n", "s">>,
           <<"t", " ", "w", "i", "n", "s">>,
           <<"t", "o", "u", "r", "n", "a", "m", "e", "n", "t", "_", "w", "i", "n", "s">>,
           <<"t", "o", "u", "r", "n", "a", "m", "e", "n", "t", " ", "w", "i", "n", "s">>,
           <<"t", "w">> >>,
    \* tDraws: t_draws, t draws, tournament_draws, tournament draws, td   (csv.ts line 266)
    tDraws |->
        << <<"t", "_", "d", "r", "a", "w", "s">>,
           <<"t", " ", "d", "r", "a", "w", "s">>,
           <<"t", "o", "u", "r", "n", "a", "m", "e", "n", "t", "_", "d", "r", "a", "w", "s">>,
           <<"t", "o", "u", "r", "n", "a", "m", "e", "n", "t", " ", "d", "r", "a", "w", "s">>,
           <<"t", "d">> >>,
    \* tLosses: t_losses, t losses, tournament_losses, tournament losses, tl   (csv.ts line 267)
    tLosses |->
        << <<"t", "_", "l", "o", "s", "s", "e", "s">>,
           <<"t", " ", "l", "o", "s", "s", "e", "s">>,
           <<"t", "o", "u", "r", "n", "a", "m", "e", "n", "t", "_", "l", "o", "s", "s", "e", "s">>,
           <<"t", "o", "u", "r", "n", "a", "m", "e", "n", "t", " ", "l", "o", "s", "s", "e", "s">>,
           <<"t", "l">> >>,
    \* tWR: tourn_win_rate, tournament win rate, twr, twr%   (csv.ts line 268)
    tWR |->
        << <<"t", "o", "u", "r", "n", "_", "w", "i", "n", "_", "r", "a", "t", "e">>,
           <<"t", "o", "u", "r", "n", "a", "m", "e", "n", "t", " ", "w", "i", "n", " ", "r", "a", "t", "e">>,
           <<"t", "w", "r">>,
           <<"t", "w", "r", "%">> >>,
    \* ntGames: nt_games, nt games, non_tourn_games, non tournament games, non_tournament_games   (csv.ts line 270)
    ntGames |->
        << <<"n", "t", "_", "g", "a", "m", "e", "s">>,
           <<"n", "t", " ", "g", "a", "m", "e", "s">>,
           <<"n", "o", "n", "_", "t", "o", "u", "r", "n", "_", "g", "a", "m", "e", "s">>,
           <<"n", "o", "n", " ", "t", "o", "u", "r", "n", "a", "m", "e", "n", "t", " ", "g", "a", "m", "e", "s">>,
           <<"n", "o", "n", "_", "t", "o", "u", "r", "n", "a", "m", "e", "n", "t", "_", "g", "a", "m", "e", "s">> >>,
    \* ntWins: nt_wins, nt wins, non_tourn_wins, non tournament wins, non_tournament_wins   (csv.ts line 271)
    ntWins |->
        << <<"n", "t", "_", "w", "i", "n", "s">>,
           <<"n", "t", " ", "w", "i", "n", "s">>,
           <<"n", "o", "n", "_", "t", "o", "u", "r", "n", "_", "w", "i", "n", "s">>,
           <<"n", "o", "n", " ", "t", "o", "u", "r", "n", "a", "m", "e", "n", "t", " ", "w", "i", "n", "s">>,
           <<"n", "o", "n", "_", "t", "o", "u", "r", "n", "a", "m", "e", "n", "t", "_", "w", "i", "n", "s">> >>,
    \* ntDraws: nt_draws, nt draws, non_tourn_draws, non tournament draws, non_tournament_draws   (csv.ts line 272)
    ntDraws |->
        << <<"n", "t", "_", "d", "r", "a", "w", "s">>,
           <<"n", "t", " ", "d", "r", "a", "w", "s">>,
           <<"n", "o", "n", "_", "t", "o", "u", "r", "n", "_", "d", "r", "a", "w", "s">>,
           <<"n", "o", "n", " ", "t", "o", "u", "r", "n", "a", "m", "e", "n", "t", " ", "d", "r", "a", "w", "s">>,
           <<"n", "o", "n", "_", "t", "o", "u", "r", "n", "a", "m", "e", "n", "t", "_", "d", "r", "a", "w", "s">> >>,
    \* ntLosses: nt_losses, nt losses, non_tourn_losses, non tournament losses, non_tournament_losses   (csv.ts line 273)
    ntLosses |->
        << <<"n", "t", "_", "l", "o", "s", "s", "e", "s">>,
           <<"n", "t", " ", "l", "o", "s", "s", "e", "s">>,
           <<"n", "o", "n", "_", "t", "o", "u", "r", "n", "_", "l", "o", "s", "s", "e", "s">>,
           <<"n", "o", "n", " ", "t", "o", "u", "r", "n", "a", "m", "e", "n", "t", " ", "l", "o", "s", "s", "e", "s">>,
           <<"n", "o", "n", "_", "t", "o", "u", "r", "n", "a", "m", "e", "n", "t", "_", "l", "o", "s", "s", "e", "s">> >>,
    \* ntWR: non_tourn_win_rate, non tournament win rate, ntwr, ntwr%   (csv.ts line 274)
    ntWR |->
        << <<"n", "o", "n", "_", "t", "o", "u", "r", "n", "_", "w", "i", "n", "_", "r", "a", "t", "e">>,
           <<"n", "o", "n", " ", "t", "o", "u", "r", "n", "a", "m", "e", "n", "t", " ", "w", "i", "n", " ", "r", "a", "t", "e">>,
           <<"n", "t", "w", "r">>,
           <<"n", "t", "w", "r", "%">> >>,
    \* eloGain: elo_gain, elo gain   (csv.ts line 276)
    eloGain |->
        << <<"e", "l", "o", "_", "g", "a", "i", "n">>,
           <<"e", "l", "o", " ", "g", "a", "i", "n">> >>,
    \* eloLoss: elo_loss, elo loss   (csv.ts line 277)
    eloLoss |->
        << <<"e", "l", "o", "_", "l", "o", "s", "s">>,
           <<"e", "l", "o", " ", "l", "o", "s", "s">> >>,
    \* eloRatio: elo_ratio, elo ratio, elor   (csv.ts line 278)
    eloRatio |->
        << <<"e", "l", "o", "_", "r", "a", "t", "i", "o">>,
           <<"e", "l", "o", " ", "r", "a", "t", "i", "o">>,
           <<"e", "l", "o", "r">> >>,
    \* tEloGain: tourn_elo_gain, t elo gain, t_elo_gain   (csv.ts line 280)
    tEloGain |->
        << <<"t", "o", "u", "r", "n", "_", "e", "l", "o", "_", "g", "a", "i", "n">>,
           <<"t", " ", "e", "l", "o", " ", "g", "a", "i", "n">>,
           <<"t", "_", "e", "l", "o", "_", "g", "a", "i", "n">> >>,
    \* tEloLoss: tourn_elo_loss, t elo loss, t_elo_loss   (csv.ts line 281)
    tEloLoss |->
        << <<"t", "o", "u", "r", "n", "_", "e", "l", "o", "_", "l", "o", "s", "s">>,
           <<"t", " ", "e", "l", "o", " ", "l", "o", "s", "s">>,
           <<"t", "_", "e", "l", "o", "_", "l", "o", "s", "s">> >>,
    \* tEloRatio: tourn_elo_ratio, t elo ratio, t_elo_ratio, telor, t elor, t eloratio   (csv.ts line 282)
    tEloRatio |->
        << <<"t", "o", "u", "r", "n", "_", "e", "l", "o", "_", "r", "a", "t", "i", "o">>,
           <<"t", " ", "e", "l", "o", " ", "r", "a", "t", "i", "o">>,
           <<"t", "_", "e", "l", "o", "_", "r", "a", "t", "i", "o">>,
           <<"t", "e", "l", "o", "r">>,
           <<"t", " ", "e", "l", "o", "r">>,
           <<"t", " ", "e", "l", "o", "r", "a", "t", "i", "o">> >>,
    \* ntEloGain: non_tourn_elo_gain, nt elo gain, nt_elo_gain   (csv.ts line 284)
    ntEloGain |->
        << <<"n", "o", "n", "_", "t", "o", "u", "r", "n", "_", "e", "l", "o", "_", "g", "a", "i", "n">>,
           <<"n", "t", " ", "e", "l", "o", " ", "g", "a", "i", "n">>,
           <<"n", "t", "_", "e", "l", "o", "_", "g", "a", "i", "n">> >>,
    \* ntEloLoss: non_tourn_elo_loss, nt elo loss, nt_elo_loss   (csv.ts line 285)
    ntEloLoss |->
        << <<"n", "o", "n", "_", "t", "o", "u", "r", "n", "_", "e", "l", "o", "_", "l", "o", "s", "s">>,
           <<"n", "t", " ", "e", "l", "o", " ", "l", "o", "s", "s">>,
           <<"n", "t", "_", "e", "l", "o", "_", "l", "o", "s", "s">> >>,
    \* ntEloRatio: non_tourn_elo_ratio, nt elo ratio, nt_elo_ratio, ntelor   (csv.ts line 286)
    ntEloRatio |->
        << <<"n", "o", "n", "_", "t", "o", "u", "r", "n", "_", "e", "l", "o", "_", "r", "a", "t", "i", "o">>,
           <<"n", "t", " ", "e", "l", "o", " ", "r", "a", "t", "i", "o">>,
           <<"n", "t", "_", "e", "l", "o", "_", "r", "a", "t", "i", "o">>,
           <<"n", "t", "e", "l", "o", "r">> >>,
    \* wrGap: wr_gap, wr gap, U+0394wr, wr gap (t U+2212 nt), wr gap (t-nt)   (csv.ts line 288)
    wrGap |->
        << <<"w", "r", "_", "g", "a", "p">>,
           <<"w", "r", " ", "g", "a", "p">>,
           <<"U+0394", "w", "r">>,
           <<"w", "r", " ", "g", "a", "p", " ", "(", "t", " ", "U+2212", " ", "n", "t", ")">>,
           <<"w", "r", " ", "g", "a", "p", " ", "(", "t", "-", "n", "t", ")">> >>,
    \* eloRatioGap: elo_ratio_gap, elo ratio gap, U+0394elor   (csv.ts line 289)
    eloRatioGap |->
        << <<"e", "l", "o", "_", "r", "a", "t", "i", "o", "_", "g", "a", "p">>,
           <<"e", "l", "o", " ", "r", "a", "t", "i", "o", " ", "g", "a", "p">>,
           <<"U+0394", "e", "l", "o", "r">> >>,
    \* tSelfBail: t_self_bail_loss_ratio, t-selfto%   (csv.ts line 291)
    tSelfBail |->
        << <<"t", "_", "s", "e", "l", "f", "_", "b", "a", "i", "l", "_", "l", "o", "s", "s", "_", "r", "a", "t", "i", "o">>,
           <<"t", "-", "s", "e", "l", "f", "t", "o", "%">> >>,
    \* ntSelfBail: nt_self_bail_loss_ratio, nt-selfto%   (csv.ts line 292)
    ntSelfBail |->
        << <<"n", "t", "_", "s", "e", "l", "f", "_", "b", "a", "i", "l", "_", "l", "o", "s", "s", "_", "r", "a", "t", "i", "o">>,
           <<"n", "t", "-", "s", "e", "l", "f", "t", "o", "%">> >>,
    \* reasons: reasons   (csv.ts line 294)
    reasons |->
        << <<"r", "e", "a", "s", "o", "n", "s">> >>
  ]


(***************************************************************************)
(* Regular expressions.  A pattern is the sequence of its items:           *)
(*   [op |-> "lit", w]   the characters w, compared case-insensitively     *)
(*                       (every pattern of the program has flag i),        *)
(*   [op |-> "wb"]       \b,                                               *)
(*   [op |-> "cls", c, min, max, cap]  a greedy run of min..max characters *)
(*                       of class c, captured as m[1] when cap,            *)
(*   [op |-> "opt", g]   (?:g)?, greedy.                                   *)
(* Matching is the backtracking search of ECMAScript: the leftmost start,  *)
(* and at each item the longest alternative first.                         *)
(***************************************************************************)
\* the unbounded quantifiers * and +, as a repetition count no text reaches
Many == 1000 * 1000

\* [A-Za-z0-9_]
IsWordChar(c) == IsLowerAlnum(ToLowerChar(c)) \/ c = "_"

InClass(c, cls) ==
    CASE cls = "space"      -> c = " "
      [] cls = "digit"      -> c \in Digits
      [] cls = "numdot"     -> c \in Digits \/ c = "."
      [] cls = "colonspace" -> c = ":" \/ c = " "
      [] cls = "dashspace"  -> c = "-" \/ c = " "
      [] cls = "nonword"    -> ~IsWordChar(c)

\* \b at position i of s (between s[i - 1] and s[i])
WordBoundary(s, i) ==
    (i > 1 /\ IsWordChar(s[i - 1])) # (i <= Len(s) /\ IsWordChar(s[i]))

\* the length of the run of class cls in s from i, at most max
RECURSIVE ClassRun(_, _, _, _)
ClassRun(s, i, cls, max) ==
    IF max > 0 /\ i <= Len(s) /\ InClass(s[i], cls)
    THEN 1 + ClassRun(s, i + 1, cls, max - 1)
    ELSE 0

NoMatch == [ok |-> FALSE, cap |-> <<>>]

\* the match m, or the next attempt when m failed
OrElse(m, next) == IF m.ok THEN m ELSE next

RECURSIVE MatchAt(_, _, _, _)
RECURSIVE MatchRun(_, _, _, _, _, _)

\* the items matched against s from position i: [ok, cap]
MatchAt(items, s, i, cap) ==
    IF items = <<>> THEN [ok |-> TRUE, cap |-> cap]
    ELSE LET it == Head(items)
             rest == Tail(items)
         IN  CASE it.op = "lit" ->
                    IF /\ i + Len(it.w) - 1 <= Len(s)
                       /\ \A k \in 1..Len(it.w) : ToLowerChar(s[i + k - 1]) = it.w[k]
                    THEN MatchAt(rest, s, i + Len(it.w), cap)
                    ELSE NoMatch
               [] it.op = "wb" ->
                    IF WordBoundary(s, i) THEN MatchAt(rest, s, i, cap) ELSE NoMatch
               [] it.op = "cls" ->
                    MatchRun(it, rest, s, i, cap, ClassRun(s, i, it.c, it.max))
               [] it.op = "opt" ->
                    OrElse(MatchAt(it.g \o rest, s, i, cap), MatchAt(rest, s, i, cap))

\* a run of n characters for the class item it, then the rest; on failure
\* one character fewer
MatchRun(it, rest, s, i, cap, n) ==
    IF n < it.min THEN NoMatch
    ELSE OrElse(MatchAt(rest, s, i + n,
                        IF it.cap THEN SubSeq(s, i, i + n - 1) ELSE cap),
                MatchRun(it, rest, s, i, cap, n - 1))

\* s.match(pattern): the match at the leftmost position that has one
RECURSIVE SearchFrom(_, _, _)
SearchFrom(items, s, i) ==
    IF i > Len(s) + 1 THEN NoMatch
    ELSE OrElse(MatchAt(items, s, i, <<>>), SearchFrom(items, s, i + 1))

StrMatch(s, items) == SearchFrom(items, s, 1)

\* a.match(p1) || a.match(p2) || ... over the patterns ps
RECURSIVE FirstMatch(_, _)
FirstMatch(s, ps) ==
    IF ps = <<>> THEN NoMatch
    ELSE OrElse(StrMatch(s, Head(ps)), FirstMatch(s, Tail(ps)))

\* /\bover\s+(\d+)\s+(?:rated\s+)?games\b/i
ReGames ==
    << [op |-> "wb"],
       [op |-> "lit", w |-> <<"o", "v", "e", "r">>],
       [op |-> "cls", c |-> "space", min |-> 1, max |-> Many, cap |-> FALSE],
       [op |-> "cls", c |-> "digit", min |-> 1, max |-> Many, cap |-> TRUE],
       [op |-> "cls", c |-> "space", min |-> 1, max |-> Many, cap |-> FALSE],
       [op |-> "opt", g |-> << [op |-> "lit", w |-> <<"r", "a", "t", "e", "d">>], [op |-> "cls", c |-> "space", min |-> 1, max |-> Many, cap |-> FALSE] >>],
       [op |-> "lit", w |-> <<"g", "a", "m", "e", "s">>],
       [op |-> "wb"] >>

\* /\belo\s*ratio[:\s]*([0-9.]+)/i
ReElo1 ==
    << [op |-> "wb"],
       [op |-> "lit", w |-> <<"e", "l", "o">>],
       [op |-> "cls", c |-> "space", min |-> 0, max |-> Many, cap |-> FALSE],
       [op |-> "lit", w |-> <<"r", "a", "t", "i", "o">>],
       [op |-> "cls", c |-> "colonspace", min |-> 0, max |-> Many, cap |-> FALSE],
       [op |-> "cls", c |-> "numdot", min |-> 1, max |-> Many, cap |-> TRUE] >>

\* /\belo\s*ratio\W+([0-9.]+)/i
ReElo2 ==
    << [op |-> "wb"],
       [op |-> "lit", w |-> <<"e", "l", "o">>],
       [op |-> "cls", c |-> "space", min |-> 0, max |-> Many, cap |-> FALSE],
       [op |-> "lit", w |-> <<"r", "a", "t", "i", "o">>],
       [op |-> "cls", c |-> "nonword", min |-> 1, max |-> Many, cap |-> FALSE],
       [op |-> "cls", c |-> "numdot", min |-> 1, max |-> Many, cap |-> TRUE] >>

\* /\bEloRatio\s*([0-9.]+)/i
ReElo3 ==
    << [op |-> "wb"],
       [op |-> "lit", w |-> <<"e", "l", "o", "r", "a", "t", "i", "o">>],
       [op |-> "cls", c |-> "space", min |-> 0, max |-> Many, cap |-> FALSE],
       [op |-> "cls", c |-> "numdot", min |-> 1, max |-> Many, cap |-> TRUE] >>

\* /\b(?:tourn(?:ament)?)\s+elo\s*ratio[:\s]*([0-9.]+)/i
ReTElo1 ==
    << [op |-> "wb"],
       [op |-> "lit", w |-> <<"t", "o", "u", "r", "n">>],
       [op |-> "opt", g |-> << [op |-> "lit", w |-> <<"a", "m", "e", "n", "t">>] >>],
       [op |-> "cls", c |-> "space", min |-> 1, max |-> Many, cap |-> FALSE],
       [op |-> "lit", w |-> <<"e", "l", "o">>],
       [op |-> "cls", c |-> "space", min |-> 0, max |-> Many, cap |-> FALSE],
       [op |-> "lit", w |-> <<"r", "a", "t", "i", "o">>],
       [op |-> "cls", c |-> "colonspace", min |-> 0, max |-> Many, cap |-> FALSE],
       [op |-> "cls", c |-> "numdot", min |-> 1, max |-> Many, cap |-> TRUE] >>

\* /\bTourn\s*EloRatio\s*([0-9.]+)/i
ReTElo2 ==
    << [op |-> "wb"],
       [op |-> "lit", w |-> <<"t", "o", "u", "r", "n">>],
       [op |-> "cls", c |-> "space", min |-> 0, max |-> Many, cap |-> FALSE],
       [op |-> "lit", w |-> <<"e", "l", "o", "r", "a", "t", "i", "o">>],
       [op |-> "cls", c |-> "space", min |-> 0, max |-> Many, cap |-> FALSE],
       [op |-> "cls", c |-> "numdot", min |-> 1, max |-> Many, cap |-> TRUE] >>

\* /\bnon[-\s]?tourn(?:ament)?\s+(?:elo\s*)?ratio[:\s]*([0-9.]+)/i
ReNtElo ==
    << [op |-> "wb"],
       [op |-> "lit", w |-> <<"n", "o", "n">>],
       [op |-> "cls", c |-> "dashspace", min |-> 0, max |-> 1, cap |-> FALSE],
       [op |-> "lit", w |-> <<"t", "o", "u", "r", "n">>],
       [op |-> "opt", g |-> << [op |-> "lit", w |-> <<"a", "m", "e", "n", "t">>] >>],
       [op |-> "cls", c |-> "space", min |-> 1, max |-> Many, cap |-> FALSE],
       [op |-> "opt", g |-> << [op |-> "lit", w |-> <<"e", "l", "o">>], [op |-> "cls", c |-> "space", min |-> 0, max |-> Many, cap |-> FALSE] >>],
       [op |-> "lit", w |-> <<"r", "a", "t", "i", "o">>],
       [op |-> "cls", c |-> "colonspace", min |-> 0, max |-> Many, cap |-> FALSE],
       [op |-> "cls", c |-> "numdot", min |-> 1, max |-> Many, cap |-> TRUE] >>

\* /\(gap\s*([0-9.]+)\s*\)/i
ReGap ==
    << [op |-> "lit", w |-> <<"(", "g", "a", "p">>],
       [op |-> "cls", c |-> "space", min |-> 0, max |-> Many, cap |-> FALSE],
       [op |-> "cls", c |-> "numdot", min |-> 1, max |-> Many, cap |-> TRUE],
       [op |-> "cls", c |-> "space", min |-> 0, max |-> Many, cap |-> FALSE],
       [op |-> "lit", w |-> <<")">>] >>

\* /\bnon[-\s]?tournament\s+self-bail\s+losses\s+([0-9.]+)%/i
ReNtSelfBail1 ==
    << [op |-> "wb"],
       [op |-> "lit", w |-> <<"n", "o", "n">>],
       [op |-> "cls", c |-> "dashspace", min |-> 0, max |-> 1, cap |-> FALSE],
       [op |-> "lit", w |-> <<"t", "o", "u", "r", "n", "a", "m", "e", "n", "t">>],
       [op |-> "cls", c |-> "space", min |-> 1, max |-> Many, cap |-> FALSE],
       [op |-> "lit", w |-> <<"s", "e", "l", "f", "-", "b", "a", "i", "l">>],
       [op |-> "cls", c |-> "space", min |-> 1, max |-> Many, cap |-> FALSE],
       [op |-> "lit", w |-> <<"l", "o", "s", "s", "e", "s">>],
       [op |-> "cls", c |-> "space", min |-> 1, max |-> Many, cap |-> FALSE],
       [op |-> "cls", c |-> "numdot", min |-> 1, max |-> Many, cap |-> TRUE],
       [op |-> "lit", w |-> <<"%">>] >>

\* /\bNT\s+self-bail\s+loss(?:es)?\s+([0-9.]+)%/i
ReNtSelfBail2 ==
    << [op |-> "wb"],
       [op |-> "lit", w |-> <<"n", "t">>],
       [op |-> "cls", c |-> "space", min |-> 1, max |-> Many, cap |-> FALSE],
       [op |-> "lit", w |-> <<"s", "e", "l", "f", "-", "b", "a", "i", "l">>],
       [op |-> "cls", c |-> "space", min |-> 1, max |-> Many, cap |-> FALSE],
       [op |-> "lit", w |-> <<"l", "o", "s", "s">>],
       [op |-> "opt", g |-> << [op |-> "lit", w |-> <<"e", "s">>] >>],
       [op |-> "cls", c |-> "space", min |-> 1, max |-> Many, cap |-> FALSE],
       [op |-> "cls", c |-> "numdot", min |-> 1, max |-> Many, cap |-> TRUE],
       [op |-> "lit", w |-> <<"%">>] >>

\* /\b(\d+)\s+upset\s+wins?\b/i
ReUpsets ==
    << [op |-> "wb"],
       [op |-> "cls", c |-> "digit", min |-> 1, max |-> Many, cap |-> TRUE],
       [op |-> "cls", c |-> "space", min |-> 1, max |-> Many, cap |-> FALSE],
       [op |-> "lit", w |-> <<"u", "p", "s", "e", "t">>],
       [op |-> "cls", c |-> "space", min |-> 1, max |-> Many, cap |-> FALSE],
       [op |-> "lit", w |-> <<"w", "i", "n">>],
       [op |-> "opt", g |-> << [op |-> "lit", w |-> <<"s">>] >>],
       [op |-> "wb"] >>

\* String(reasons ?? "") for the values reasonsStr takes here: a string
ToStr(v) ==
    CASE IsNullish(v)   -> <<>>
      [] v.t = "string" -> v.s

\* the patterns tried in turn for each value parseFromReasons extracts, and
\* the conversion of the captured text
Patterns ==
    [games      |-> [res |-> <<ReGames>>, conv |-> "num"],
     elo        |-> [res |-> <<ReElo1, ReElo2, ReElo3>>, conv |-> "rat"],
     tElo       |-> [res |-> <<ReTElo1, ReTElo2>>, conv |-> "rat"],
     ntElo      |-> [res |-> <<ReNtElo>>, conv |-> "rat"],
     gap        |-> [res |-> <<ReGap>>, conv |-> "rat"],
     ntSelfBail |-> [res |-> <<ReNtSelfBail1, ReNtSelfBail2>>, conv |-> "pct"],
     upsets     |-> [res |-> <<ReUpsets>>, conv |-> "num"]]

\* the conversion kind applied to v ("raw": none)
Convert(kind, v) ==
    CASE kind = "num" -> num(v)
      [] kind = "pct" -> pct(v)
      [] kind = "rat" -> rat(v)
      [] OTHER        -> v

\* m ? conv(m[1]) : null
Extracted(m, conv) == IF m.ok THEN Convert(conv, Str(m.cap)) ELSE Null

\* the body of parseFromReasons for the text R
ParseText(R, P) ==
    [x \in DOMAIN P |-> Extracted(FirstMatch(R, P[x].res), P[x].conv)]

\* parseFromReasons of csv.ts
parseFromReasons(reasons) ==
    ParseText(ToStr(Coalesce(reasons, Str(<<>>))), Patterns)

(***************************************************************************)
(* The dotted paths of each field, each path as its components             *)
(***************************************************************************)
\* the path lists handed to pick
Paths ==
  [
    \* suspicion_score, suspicion.score   (csv.ts line 308)
    suspicion |-> << <<"suspicion_score">>, <<"suspicion", "score">> >>,
    \* tournament.games, t.games, tourn.games   (csv.ts line 312)
    tGames |-> << <<"tournament", "games">>, <<"t", "games">>, <<"tourn", "games">> >>,
    \* tournament.wins, t.wins, tourn.wins   (csv.ts line 313)
    tWins |-> << <<"tournament", "wins">>, <<"t", "wins">>, <<"tourn", "wins">> >>,
    \* tournament.draws, t.draws, tourn.draws   (csv.ts line 314)
    tDraws |-> << <<"tournament", "draws">>, <<"t", "draws">>, <<"tourn", "draws">> >>,
    \* tournament.losses, t.losses, tourn.losses   (csv.ts line 315)
    tLosses |-> << <<"tournament", "losses">>, <<"t", "losses">>, <<"tourn", "losses">> >>,
    \* tournament.win_rate, t.win_rate   (csv.ts line 316)
    tWR |-> << <<"tournament", "win_rate">>, <<"t", "win_rate">> >>,
    \* non_tournament.games, nt.games   (csv.ts line 318)
    ntGames |-> << <<"non_tournament", "games">>, <<"nt", "games">> >>,
    \* non_tournament.wins, nt.wins   (csv.ts line 319)
    ntWins |-> << <<"non_tournament", "wins">>, <<"nt", "wins">> >>,
    \* non_tournament.draws, nt.draws   (csv.ts line 320)
    ntDraws |-> << <<"non_tournament", "draws">>, <<"nt", "draws">> >>,
    \* non_tournament.losses, nt.losses   (csv.ts line 321)
    ntLosses |-> << <<"non_tournament", "losses">>, <<"nt", "losses">> >>,
    \* non_tournament.win_rate, nt.win_rate   (csv.ts line 322)
    ntWR |-> << <<"non_tournament", "win_rate">>, <<"nt", "win_rate">> >>,
    \* totals.games, lifetime_games, recent.games, games   (csv.ts line 325)
    recentGames |-> << <<"totals", "games">>, <<"lifetime_games">>, <<"recent", "games">>, <<"games">> >>,
    \* totals.wins, wins   (csv.ts line 326)
    recentWins |-> << <<"totals", "wins">>, <<"wins">> >>,
    \* totals.draws, draws   (csv.ts line 327)
    recentDraws |-> << <<"totals", "draws">>, <<"draws">> >>,
    \* totals.losses, losses   (csv.ts line 328)
    recentLosses |-> << <<"totals", "losses">>, <<"losses">> >>,
    \* streak   (csv.ts line 340)
    streak |-> << <<"streak">> >>,
    \* max_streak   (csv.ts line 341)
    maxStreak |-> << <<"max_streak">> >>,
    \* upset_wins   (csv.ts line 342)
    upsetWins |-> << <<"upset_wins">> >>,
    \* ratios.short_win_rate, short_win_rate   (csv.ts line 346)
    shortWinRate |-> << <<"ratios", "short_win_rate">>, <<"short_win_rate">> >>,
    \* ratios.timeout_win_ratio, timeout_win_ratio   (csv.ts line 347)
    timeoutWinRatio |-> << <<"ratios", "timeout_win_ratio">>, <<"timeout_win_ratio">> >>,
    \* totals.elo.gain, elo.gain   (csv.ts line 350)
    eloGain |-> << <<"totals", "elo", "gain">>, <<"elo", "gain">> >>,
    \* totals.elo.loss, elo.loss   (csv.ts line 351)
    eloLoss |-> << <<"totals", "elo", "loss">>, <<"elo", "loss">> >>,
    \* totals.elo.ratio, elo.ratio   (csv.ts line 352)
    eloRatio |-> << <<"totals", "elo", "ratio">>, <<"elo", "ratio">> >>,
    \* tournament.elo.gain, t.elo.gain   (csv.ts line 354)
    tEloGain |-> << <<"tournament", "elo", "gain">>, <<"t", "elo", "gain">> >>,
    \* tournament.elo.loss, t.elo.loss   (csv.ts line 355)
    tEloLoss |-> << <<"tournament", "elo", "loss">>, <<"t", "elo", "loss">> >>,
    \* tournament.elo.ratio, t.elo.ratio   (csv.ts line 356)
    tEloRatio |-> << <<"tournament", "elo", "ratio">>, <<"t", "elo", "ratio">> >>,
    \* non_tournament.elo.gain, nt.elo.gain   (csv.ts line 358)
    ntEloGain |-> << <<"non_tournament", "elo", "gain">>, <<"nt", "elo", "gain">> >>,
    \* non_tournament.elo.loss, nt.elo.loss   (csv.ts line 359)
    ntEloLoss |-> << <<"non_tournament", "elo", "loss">>, <<"nt", "elo", "loss">> >>,
    \* non_tournament.elo.ratio, nt.elo.ratio   (csv.ts line 360)
    ntEloRatio |-> << <<"non_tournament", "elo", "ratio">>, <<"nt", "elo", "ratio">> >>,
    \* ratios.self_bail_loss_ratio_t   (csv.ts line 371)
    tSelfBail |-> << <<"ratios", "self_bail_loss_ratio_t">> >>,
    \* ratios.self_bail_loss_ratio_nt   (csv.ts line 372)
    ntSelfBail |-> << <<"ratios", "self_bail_loss_ratio_nt">> >>
  ]

(***************************************************************************)
(* buildDownloadCsvRowsStrict: one row                                     *)
(***************************************************************************)
RECURSIVE Gcd(_, _)
Gcd(a, b) == IF b = 0 THEN a ELSE Gcd(b, a % b)

\* the rate left as a fraction of 1, to three decimals
RateFromCountsAsFraction(wins, games) ==
    Num(MathRound(1000 * wins.n, games.n) * (Unit \div 1000))

\* Math.round(((wins / games) * 100) * 10) / 10 for games > 0; the quotient
\* is taken of the two numbers reduced by their common divisor
RateFromCounts(wins, games) ==
    LET g == Gcd(IF wins.n < 0 THEN 0 - wins.n ELSE wins.n, games.n) IN
    Num(MathRound(1000 * (wins.n \div g), games.n \div g) * (Unit \div 10))

\* a rate filled in without looking at the one already there
FillRateAlways(rate, wins, games) ==
    IF ~IsNullish(wins) /\ ~IsNullish(games) /\ games.n # 0 /\ games.n > 0
    THEN RateFromCounts(wins, games)
    ELSE rate

\* if (rate == null && wins != null && games && games > 0) rate = ...
FillRate(rate, wins, games) ==
    IF IsNullish(rate) /\ ~IsNullish(wins) /\ ~IsNullish(games)
         /\ games.n # 0 /\ games.n > 0
    THEN RateFromCounts(wins, games)
    ELSE rate

\* reasons.join("; ") of an array of strings (a nullish element gives "")
RECURSIVE JoinReasons(_)
JoinReasons(a) ==
    IF a = <<>> THEN <<>>
    ELSE IF Len(a) = 1 THEN ToStr(a[1])
    ELSE ToStr(a[1]) \o <<";", " ">> \o JoinReasons(Tail(a))

\* the reasons text of a row: lines 300-303
ReasonsStr(r, csv, cache) ==
    LET reasons == IF IsNullish(r) THEN Undefined ELSE GetProp(r, "reasons") IN
    IF reasons.t = "array" THEN Str(JoinReasons(reasons.a))
    ELSE IF TypeOf(reasons) = "string" THEN reasons
    ELSE Coalesce(getCSV(csv, cache, A.reasons), Str(<<>>))

\* wr_gap with the side table asked first
WrGapTableFirst(tWR, ntWR, fromTable) ==
    IF ~IsNullish(fromTable) THEN fromTable
    ELSE IF ~IsNullish(tWR) /\ ~IsNullish(ntWR) THEN Num(Round1(tWR.n - ntWR.n))
    ELSE Null

\* lines 363-365
WrGap(tWR, ntWR, fromTable) ==
    IF ~IsNullish(tWR) /\ ~IsNullish(ntWR)
    THEN Num(Round1(tWR.n - ntWR.n))
    ELSE fromTable

\* lines 367-369
EloRatioGap(tRatio, ntRatio, fromTable, fromReasons) ==
    IF ~IsNullish(tRatio) /\ ~IsNullish(ntRatio)
    THEN rat(Num(tRatio.n - ntRatio.n))
    ELSE Coalesce(Coalesce(fromTable, fromReasons), Null)

\* a narrative value that overrides the side table
NarrativeFirst(structured, table, narrative) ==
    Coalesce(Coalesce(Coalesce(structured, narrative), table), Null)

\* structured ?? table ?? narrative ?? null
StructuredTableNarrative(structured, table, narrative) ==
    Coalesce(Coalesce(Coalesce(structured, table), narrative), Null)

(***************************************************************************)
(* The sources of each field of the row: its dotted paths, its aliases and *)
(* the conversion applied ("num", "pct", "rat", or "raw" for none)         *)
(***************************************************************************)
FieldKinds ==
  [
    suspicion_score         |-> [key |-> "suspicion", s |-> "raw", t |-> "num"],
    recent_games            |-> [key |-> "recentGames", s |-> "num", t |-> "num"],
    recent_wins             |-> [key |-> "recentWins", s |-> "num", t |-> "num"],
    recent_draws            |-> [key |-> "recentDraws", s |-> "num", t |-> "num"],
    recent_losses           |-> [key |-> "recentLosses", s |-> "num", t |-> "num"],
    win_streak              |-> [key |-> "streak", s |-> "raw", t |-> "raw"],
    max_win_streak          |-> [key |-> "maxStreak", s |-> "raw", t |-> "raw"],
    upset_wins              |-> [key |-> "upsetWins", s |-> "raw", t |-> "raw"],
    short_win_rate          |-> [key |-> "shortWinRate", s |-> "pct", t |-> "pct"],
    timeout_win_ratio       |-> [key |-> "timeoutWinRatio", s |-> "pct", t |-> "pct"],
    tourn_games             |-> [key |-> "tGames", s |-> "num", t |-> "num"],
    tourn_wins              |-> [key |-> "tWins", s |-> "num", t |-> "num"],
    tourn_draws             |-> [key |-> "tDraws", s |-> "num", t |-> "num"],
    tourn_losses            |-> [key |-> "tLosses", s |-> "num", t |-> "num"],
    non_tourn_games         |-> [key |-> "ntGames", s |-> "num", t |-> "num"],
    non_tourn_wins          |-> [key |-> "ntWins", s |-> "num", t |-> "num"],
    non_tourn_draws         |-> [key |-> "ntDraws", s |-> "num", t |-> "num"],
    non_tourn_losses        |-> [key |-> "ntLosses", s |-> "num", t |-> "num"],
    tourn_win_rate          |-> [key |-> "tWR", s |-> "pct", t |-> "pct"],
    non_tourn_win_rate      |-> [key |-> "ntWR", s |-> "pct", t |-> "pct"],
    wr_gap                  |-> [key |-> "wrGap", s |-> "pct", t |-> "pct"],
    elo_gain                |-> [key |-> "eloGain", s |-> "num", t |-> "num"],
    elo_loss                |-> [key |-> "eloLoss", s |-> "num", t |-> "num"],
    elo_ratio               |-> [key |-> "eloRatio", s |-> "rat", t |-> "rat"],
    tourn_elo_gain          |-> [key |-> "tEloGain", s |-> "num", t |-> "num"],
    tourn_elo_loss          |-> [key |-> "tEloLoss", s |-> "num", t |-> "num"],
    tourn_elo_ratio         |-> [key |-> "tEloRatio", s |-> "rat", t |-> "rat"],
    non_tourn_elo_gain      |-> [key |-> "ntEloGain", s |-> "num", t |-> "num"],
    non_tourn_elo_loss      |-> [key |-> "ntEloLoss", s |-> "num", t |-> "num"],
    non_tourn_elo_ratio     |-> [key |-> "ntEloRatio", s |-> "rat", t |-> "rat"],
    elo_ratio_gap           |-> [key |-> "eloRatioGap", s |-> "rat", t |-> "rat"],
    t_self_bail_loss_ratio  |-> [key |-> "tSelfBail", s |-> "pct", t |-> "pct"],
    nt_self_bail_loss_ratio |-> [key |-> "ntSelfBail", s |-> "pct", t |-> "pct"]
  ]

\* the paths of a bundle key (none for the two gaps)
PathsOf(P, key) == IF key \in DOMAIN P THEN P[key] ELSE <<>>

SourcesFrom(K, P, B) ==
    [f \in DOMAIN K |->
        [p |-> PathsOf(P, K[f].key), a |-> B[K[f].key],
         skind |-> K[f].s, kind |-> K[f].t]]

\* per field: its paths p, its aliases a, the conversion skind of the value
\* found at a path and the conversion kind of the side-table cell
FieldSources == SourcesFrom(FieldKinds, Paths, A)

FieldNames == DOMAIN FieldKinds

\* what the structured source (s) and the side table (t) give for each
\* field, converted: conv(pick(r, [...])) and conv(getCSV(csv, A.x))
SourceValues(r, csv, index, S) ==
    [f \in DOMAIN S |->
        [s |-> Convert(S[f].skind, pick(r, S[f].p)),
         t |-> Convert(S[f].kind, getCSV(csv, index, S[f].a))]]

\* conv(pick(r, [...])) ?? conv(getCSV(csv, A.x))
StructuredThenTable(x) == Coalesce(x.s, x.t)

\* getCSV(csv, A.x) ?? pick(r, [...])
TableThenStructured(x) == Coalesce(x.t, x.s)

\* lines 306-414: the row of one entity from the values v of its two
\* sources, the values parsed from its narrative and the narrative itself
Row(username, v, parsed, reasonsStr) ==
    LET suspicion_score == Coalesce(StructuredThenTable(v.suspicion_score), Null)

        t_games  == Coalesce(StructuredThenTable(v.tourn_games), Null)
        t_wins   == Coalesce(StructuredThenTable(v.tourn_wins), Null)
        t_draws  == Coalesce(StructuredThenTable(v.tourn_draws), Null)
        t_losses == Coalesce(StructuredThenTable(v.tourn_losses), Null)

        nt_games  == Coalesce(StructuredThenTable(v.non_tourn_games), Null)
        nt_wins   == Coalesce(StructuredThenTable(v.non_tourn_wins), Null)
        nt_draws  == Coalesce(StructuredThenTable(v.non_tourn_draws), Null)
        nt_losses == Coalesce(StructuredThenTable(v.non_tourn_losses), Null)

        \* recent_x ??= sumNN(t_x, nt_x)
        recent_games ==
            Coalesce(Coalesce(StructuredThenTable(v.recent_games), parsed.games),
                     sumNN(t_games, nt_games))
        recent_wins ==
            Coalesce(StructuredThenTable(v.recent_wins), sumNN(t_wins, nt_wins))
        recent_draws ==
            Coalesce(StructuredThenTable(v.recent_draws), sumNN(t_draws, nt_draws))
        recent_losses ==
            Coalesce(StructuredThenTable(v.recent_losses), sumNN(t_losses, nt_losses))

        tWR  == FillRate(StructuredThenTable(v.tourn_win_rate), t_wins, t_games)
        ntWR == FillRate(StructuredThenTable(v.non_tourn_win_rate), nt_wins, nt_games)

        \* if (upset_wins == null && parsed.upsets != null) upset_wins = parsed.upsets
        upset_wins0 == TableThenStructured(v.upset_wins)
        upset_wins  == IF IsNullish(upset_wins0) /\ ~IsNullish(parsed.upsets)
                       THEN parsed.upsets ELSE upset_wins0

        t_elo_ratio ==
            StructuredTableNarrative(v.tourn_elo_ratio.s, v.tourn_elo_ratio.t,
                                     parsed.tElo)
        nt_elo_ratio ==
            StructuredTableNarrative(v.non_tourn_elo_ratio.s, v.non_tourn_elo_ratio.t,
                                     parsed.ntElo)
    IN  [username                |-> username,
         suspicion_score         |-> suspicion_score,
         recent_games            |-> recent_games,
         recent_wins             |-> recent_wins,
         recent_draws            |-> recent_draws,
         recent_losses           |-> recent_losses,
         win_streak              |-> Coalesce(TableThenStructured(v.win_streak), Null),
         max_win_streak          |-> Coalesce(TableThenStructured(v.max_win_streak), Null),
         upset_wins              |-> upset_wins,
         short_win_rate          |-> StructuredThenTable(v.short_win_rate),
         timeout_win_ratio       |-> StructuredThenTable(v.timeout_win_ratio),
         tourn_games             |-> t_games,
         tourn_wins              |-> t_wins,
         tourn_draws             |-> t_draws,
         tourn_losses            |-> t_losses,
         non_tourn_games         |-> nt_games,
         non_tourn_wins          |-> nt_wins,
         non_tourn_draws         |-> nt_draws,
         non_tourn_losses        |-> nt_losses,
         tourn_win_rate          |-> tWR,
         non_tourn_win_rate      |-> ntWR,
         wr_gap                  |-> WrGap(tWR, ntWR, v.wr_gap.t),
         elo_gain                |-> Coalesce(StructuredThenTable(v.elo_gain), Null),
         elo_loss                |-> Coalesce(StructuredThenTable(v.elo_loss), Null),
         elo_ratio               |->
             StructuredTableNarrative(v.elo_ratio.s, v.elo_ratio.t, parsed.elo),
         tourn_elo_gain          |-> Coalesce(StructuredThenTable(v.tourn_elo_gain), Null),
         tourn_elo_loss          |-> Coalesce(StructuredThenTable(v.tourn_elo_loss), Null),
         tourn_elo_ratio         |-> t_elo_ratio,
         non_tourn_elo_gain      |-> Coalesce(StructuredThenTable(v.non_tourn_elo_gain), Null),
         non_tourn_elo_loss      |-> Coalesce(StructuredThenTable(v.non_tourn_elo_loss), Null),
         non_tourn_elo_ratio     |-> nt_elo_ratio,
         elo_ratio_gap           |->
             EloRatioGap(t_elo_ratio, nt_elo_ratio, v.elo_ratio_gap.t, parsed.gap),
         t_self_bail_loss_ratio  |-> StructuredThenTable(v.t_self_bail_loss_ratio),
         nt_self_bail_loss_ratio |->
             StructuredTableNarrative(v.nt_self_bail_loss_ratio.s,
                                      v.nt_self_bail_loss_ratio.t, parsed.ntSelfBail),
         reasons                 |-> reasonsStr]

\* the row with elo_gain falling back on the narrative's elo ratio
RowOfNarrativeLeak(username, r, csv, index, reasonsStr) ==
    [Row(username, SourceValues(r, csv, index, FieldSources),
         parseFromReasons(reasonsStr), reasonsStr)
       EXCEPT !.elo_gain = Coalesce(@, parseFromReasons(reasonsStr).elo)]

\* lines 298-304, then the row: r, the side-table index and the narrative
RowOf(username, r, csv, index, reasonsStr) ==
    Row(username, SourceValues(r, csv, index, FieldSources),
        parseFromReasons(reasonsStr), reasonsStr)

\* row.result ?? {}
ResultOf(row) ==
    IF "result" \in DOMAIN row THEN Coalesce(row.result, Obj(<<>>)) ELSE Obj(<<>>)

\* csv.__normIndex once the first getCSV has run on csv
IndexOf(csv, cache) == IF NotARow(csv) THEN cache ELSE NormIndexOf(csv, cache)

\* the callback of finishedRows.map: lines 297-414
ReconcileWith(row, csv, index) ==
    RowOf(row.username, ResultOf(row), csv, index,
          ReasonsStr(ResultOf(row), csv, index))

Reconcile(row, csv, cache) == ReconcileWith(row, csv, IndexOf(csv, cache))

(***************************************************************************)
(* Arguments of the helper calls                                           *)
(***************************************************************************)
MaxStrLen == 3
MaxFine   == 12
MaxCoarse == 6

FineStep   == Unit \div (10 * 10 * 10 * 10)
CoarseStep == Unit \div 4

StrAlphabet == {"-", ".", "0", "1", "a", "%"}

RECURSIVE StringsUpTo(_)
StringsUpTo(k) ==
    IF k = 0 THEN {<<>>}
    ELSE LET shorter == StringsUpTo(k - 1) IN
         shorter \cup {Append(s, c) : s \in {x \in shorter : Len(x) = k - 1},
                                      c \in StrAlphabet}

ArgStrings == StringsUpTo(MaxStrLen)

ArgNumbers ==
    {k * FineStep * 5 : k \in (0 - MaxFine)..MaxFine}
      \cup {k * CoarseStep : k \in (0 - MaxCoarse)..MaxCoarse}
      \cup {42 * Unit, 123456, 105000, 0 - 105000}

ArgValues ==
    {Num(k) : k \in ArgNumbers}
      \cup {Str(s) : s \in ArgStrings}
      \cup {Undefined, Null, NaN, PosInf, NegInf, Bool(TRUE), Bool(FALSE),
            Obj(<<>>), Arr(<<>>), Arr(<<Num(Unit)>>),
            Obj(<<[k |-> "n", v |-> Num(Unit)]>>)}

NoValue == [t |-> "none"]

InitCall ==
    /\ arg \in ArgValues
    /\ fn = "none"
    /\ out = NoValue
    /\ finishedRows = <<>>
    /\ csvByUser = <<>>
    /\ normIndex = <<>>
    /\ outRows = <<>>
    /\ calls = 0
    /\ AppIdle

CallNum ==
    /\ fn = "none"
    /\ fn' = "num"
    /\ out' = num(arg)
    /\ UNCHANGED <<arg, calls, downloadVars>>
    /\ UNCHANGED appVars

CallToNumberOrNull ==
    /\ fn = "none"
    /\ fn' = "toNumberOrNull"
    /\ out' = toNumberOrNull(arg)
    /\ UNCHANGED <<arg, calls, downloadVars>>
    /\ UNCHANGED appVars

CallPct ==
    /\ fn = "none"
    /\ fn' = "pct"
    /\ out' = pct(arg)
    /\ UNCHANGED <<arg, calls, downloadVars>>
    /\ UNCHANGED appVars

CallPctNumber ==
    /\ fn = "none"
    /\ fn' = "pctNumber"
    /\ out' = pctNumber(arg)
    /\ UNCHANGED <<arg, calls, downloadVars>>
    /\ UNCHANGED appVars

CallRat ==
    /\ fn = "none"
    /\ fn' = "rat"
    /\ out' = rat(arg)
    /\ UNCHANGED <<arg, calls, downloadVars>>
    /\ UNCHANGED appVars

CallRatio3 ==
    /\ fn = "none"
    /\ fn' = "ratio3"
    /\ out' = ratio3(arg)
    /\ UNCHANGED <<arg, calls, downloadVars>>
    /\ UNCHANGED appVars

NextCall ==
    \/ CallNum
    \/ CallToNumberOrNull
    \/ CallPct
    \/ CallPctNumber
    \/ CallRat
    \/ CallRatio3

SpecCall == InitCall /\ [][NextCall]_vars

(***************************************************************************)
(* buildDownloadCsvRowsStrict: the sort and the whole call                 *)
(***************************************************************************)
\* the place of a character in the collation of localeCompare, for the
\* characters of a lower-cased user name: punctuation (only "_" occurs)
\* before digits, digits before letters
CollationRank(c) ==
    IF c \in Digits THEN DigitVal(c)
    ELSE IF c \in LowerCaseLetters THEN 10 + CHOOSE i \in 1..26 : Letters[i][2] = c
    ELSE 0 - 1

\* a.localeCompare(b) for two lower-cased names: negative, 0 or positive
RECURSIVE LocaleCompare(_, _)
LocaleCompare(a, b) ==
    IF a = <<>> /\ b = <<>> THEN 0
    ELSE IF a = <<>> THEN 0 - 1
    ELSE IF b = <<>> THEN 1
    ELSE IF CollationRank(Head(a)) # CollationRank(Head(b))
         THEN CollationRank(Head(a)) - CollationRank(Head(b))
    ELSE LocaleCompare(Tail(a), Tail(b))

\* num(x.suspicion_score) ?? -Infinity
SortKey(x) == Coalesce(num(x.suspicion_score), NegInf)

\* the comparator with the scores ascending
CompareKeysAscending(as, bs, a, b) ==
    IF as # bs
    THEN (IF as = NegInf THEN 0 - 1
          ELSE IF bs = NegInf THEN 1
          ELSE as.n - bs.n)
    ELSE LocaleCompare(ToLowerCase(a.username), ToLowerCase(b.username))

\* if (as !== bs) return bs - as; return ...localeCompare(...)
CompareKeys(as, bs, a, b) ==
    IF as # bs
    THEN (IF as = NegInf THEN 1
          ELSE IF bs = NegInf THEN 0 - 1
          ELSE bs.n - as.n)
    ELSE LocaleCompare(ToLowerCase(a.username), ToLowerCase(b.username))

\* the comparator of out.sort: negative when a sorts before b
CompareRows(a, b) == CompareKeys(SortKey(a), SortKey(b), a, b)

\* x put before the first element that does not sort before it
RECURSIVE InsertBeforeEqual(_, _)
InsertBeforeEqual(xs, x) ==
    IF xs = <<>> THEN <<x>>
    ELSE IF CompareRows(Head(xs), x) >= 0 THEN <<x>> \o xs
    ELSE <<Head(xs)>> \o InsertBeforeEqual(Tail(xs), x)

\* x put into the sorted sequence xs after every element that does not
\* sort after it
RECURSIVE InsertSorted(_, _)
InsertSorted(xs, x) ==
    IF xs = <<>> THEN <<x>>
    ELSE IF CompareRows(Head(xs), x) > 0 THEN <<x>> \o xs
    ELSE <<Head(xs)>> \o InsertSorted(Tail(xs), x)

\* Array.prototype.sort with CompareRows: a stable sort
RECURSIVE SortRows(_, _)
SortRows(xs, sorted) ==
    IF xs = <<>> THEN sorted
    ELSE SortRows(Tail(xs), InsertSorted(sorted, Head(xs)))

\* the key "__proto__", under which every object answers with
\* Object.prototype unless it has an own property of that name
ProtoKey == <<"_", "_", "p", "r", "o", "t", "o", "_", "_">>

\* csvByUser[row.username.toLowerCase()]: the own entry of csvByUser,
\* Object.prototype (an object without enumerable entries) for "__proto__",
\* undefined otherwise
CsvOf(row) ==
    LET key == ToLowerCase(row.username) IN
    IF key \in DOMAIN csvByUser THEN csvByUser[key]
    ELSE IF key = ProtoKey THEN Obj(<<>>)
    ELSE Undefined

\* the __normIndex property defined on the object CsvOf(row) itself
OwnCacheOf(row) ==
    LET key == ToLowerCase(row.username) IN
    IF key \in DOMAIN normIndex THEN normIndex[key] ELSE Undefined

\* the __normIndex property defined on Object.prototype, which every
\* side-table row inherits
InheritedCache ==
    IF ProtoKey \in DOMAIN normIndex THEN normIndex[ProtoKey] ELSE Undefined

\* csv.__normIndex of the row's side-table row, own or inherited
CacheOf(row) ==
    IF OwnCacheOf(row).t # "undefined" THEN OwnCacheOf(row) ELSE InheritedCache

\* the side-table row of key was looked up by this call
LookedUp(key) ==
    \E i \in 1..Len(finishedRows) : ToLowerCase(finishedRows[i].username) = key

\* the arrival of the first row that looks up the side-table row of key
FirstLookup(key) ==
    CHOOSE i \in 1..Len(finishedRows) :
        /\ ToLowerCase(finishedRows[i].username) = key
        /\ \A j \in 1..(i - 1) : ToLowerCase(finishedRows[j].username) # key

\* csv.__normIndex as the callback reads it for the row of arrival i: the
\* property of the side-table row, else the one Object.prototype has or
\* got from an earlier row of this call that looked up "__proto__"
CacheDuring(i) ==
    IF CacheOf(finishedRows[i]).t # "undefined" THEN CacheOf(finishedRows[i])
    ELSE IF \E j \in 1..(i - 1) : /\ ToLowerCase(finishedRows[j].username) = ProtoKey
                                  /\ ProtoKey \notin DOMAIN csvByUser
    THEN Obj(<<>>)
    ELSE Undefined

\* the own __normIndex of the side-table row of key after the call: a row
\* that inherits one gets none of its own
OwnCacheAfter(key) ==
    IF ~LookedUp(key) THEN normIndex[key]
    ELSE IF normIndex[key].t = "undefined"
            /\ key # ProtoKey
            /\ CacheDuring(FirstLookup(key)).t # "undefined"
    THEN Undefined
    ELSE CacheAfterLookup(CsvOf(finishedRows[FirstLookup(key)]), normIndex[key])

\* how many lookups or passes one behaviour makes at most
MaxCalls == 2

\* the call buildDownloadCsvRowsStrict(finishedRows, csvByUser): every row
\* reconciled, the rows sorted, and the index left on each side-table row
\* that was looked up
BuildDownloadCsvRowsStrict ==
    /\ fn \in {"none", "buildDownloadCsvRowsStrict"}
    /\ calls < MaxCalls
    /\ calls' = calls + 1
    /\ fn' = "buildDownloadCsvRowsStrict"
    /\ outRows' = SortRows([i \in 1..Len(finishedRows) |->
                              Reconcile(finishedRows[i], CsvOf(finishedRows[i]),
                                        CacheDuring(i))], <<>>)
    /\ csvByUser' =
          [key \in DOMAIN csvByUser |->
              IF LookedUp(key) THEN RowAfterLookup(csvByUser[key], CacheDuring(FirstLookup(key)))
              ELSE csvByUser[key]]
    /\ normIndex' = [key \in DOMAIN normIndex |-> OwnCacheAfter(key)]
    /\ UNCHANGED <<finishedRows, arg, out>>
    /\ UNCHANGED appVars

(***************************************************************************)
(* Inputs of buildDownloadCsvRowsStrict                                    *)
(***************************************************************************)
MaxAlt   == 2
MaxHalf  == 2
MaxCount == 2

Min(a, b) == IF a < b THEN a ELSE b

\* obj with value v stored at the dotted path
RECURSIVE SetPath(_, _, _)
SetPath(obj, path, v) ==
    LET k     == Head(path)
        old   == GetProp(obj, k)
        child == IF Len(path) = 1 THEN v
                 ELSE SetPath(IF old.t = "object" THEN old ELSE Obj(<<>>),
                              Tail(path), v)
    IN  IF \E i \in 1..Len(obj.e) : obj.e[i].k = k
        THEN Obj([i \in 1..Len(obj.e) |->
                    IF obj.e[i].k = k THEN [k |-> k, v |-> child] ELSE obj.e[i]])
        ELSE Obj(Append(obj.e, [k |-> k, v |-> child]))

RECURSIVE SetPaths(_, _)
SetPaths(obj, placements) ==
    IF placements = <<>> THEN obj
    ELSE SetPaths(SetPath(obj, Head(placements).p, Head(placements).v),
                  Tail(placements))

\* values of the leaves of a structured source and of the cells of a side table
LeafNumbers == {k * (Unit \div 2) : k \in 0..MaxHalf} \cup {Unit + Unit \div 2000}
LeafValues ==
    {Num(k) : k \in LeafNumbers} \cup {Str(<<"7">>), Str(<<"x">>), Obj(<<>>)}
CountValues ==
    {Num(k * Unit) : k \in 0..MaxCount} \cup {Num(10 * Unit), Str(<<"x">>)}
RateValues  == {Num(Unit \div 2), Num(42 * Unit), Str(<<"x">>)}
RatioValues == {Num(Unit \div 2), Num(Unit + Unit \div 2), Str(<<"x">>)}

\* the narratives tried with each field that the narrative can supply
T_games  == <<"o", "v", "e", "r", " ", "1", "5", " ", "g", "a", "m", "e", "s">>
T_elo    == <<"e", "l", "o", " ", "r", "a", "t", "i", "o", ":", " ", "1", ".", "2", "3", "4", "5">>
T_tElo   == <<"T", "o", "u", "r", "n", " ", "E", "l", "o", "R", "a", "t", "i", "o", " ", "1", ".", "1">>
T_ntElo  == <<"n", "o", "n", "t", "o", "u", "r", "n", " ", "r", "a", "t", "i", "o", " ", "0", ".", "8">>
T_gap    == <<"(", "g", "a", "p", " ", "0", ".", "4", "2", ")">>
T_bail   == <<"N", "T", " ", "s", "e", "l", "f", "-", "b", "a", "i", "l", " ", "l", "o", "s", "s", "e", "s", " ", "4", "0", "%">>
T_upsets == <<"3", " ", "u", "p", "s", "e", "t", " ", "w", "i", "n", "s">>
T_flagged == <<"f", "l", "a", "g", "g", "e", "d", " ">> \o T_games \o <<" ">> \o T_gap
\* the same narrative with a game count that is not the sum of the splits
T_flagged16 ==
    <<"f", "l", "a", "g", "g", "e", "d", " ", "o", "v", "e", "r", " ", "1", "6",
      " ", "g", "a", "m", "e", "s", " ">> \o T_gap

NarrativeOf(f) ==
    CASE f = "recent_games"            -> {T_games}
      [] f = "elo_ratio"               -> {T_elo}
      [] f = "tourn_elo_ratio"         -> {T_tElo}
      [] f = "non_tourn_elo_ratio"     -> {T_ntElo}
      [] f = "elo_ratio_gap"           -> {T_gap}
      [] f = "nt_self_bail_loss_ratio" -> {T_bail}
      [] f = "upset_wins"              -> {T_upsets}
      [] OTHER                         -> {}

NarrativeFields ==
    {"recent_games", "elo_ratio", "tourn_elo_ratio", "non_tourn_elo_ratio",
     "elo_ratio_gap", "nt_self_bail_loss_ratio", "upset_wins"}

UserName == <<"B", "o", "b">>
OtherName == <<"a", "L">>

\* one finished row: the structured placements and the narrative
\* (no placement and no narrative: a row without a result)
Entity(name, placements, reasons) ==
    IF placements = <<>> /\ reasons = Undefined
    THEN [username |-> name]
    ELSE [username |-> name,
          result   |-> SetPaths(Obj(<<>>),
                          placements \o (IF reasons = Undefined THEN <<>>
                                         ELSE <<[p |-> <<"reasons">>, v |-> reasons]>>))]

\* the side table holding one row, for UserName, with the cells
TableOf(cells) == ToLowerCase(UserName) :> Obj(cells)

\* one entity with a side-table row
OneEntity(placements, cells, reasons) ==
    [rows  |-> <<Entity(UserName, placements, reasons)>>,
     table |-> TableOf(cells)]

\* the ways the value of one field is supplied: not at all, at the field's
\* first path (each of values), or in its first alias column (tableValue)
SlotOptions(src, values, tableValue) ==
    {[pl |-> <<>>, cl |-> <<>>]}
      \cup {[pl |-> <<[p |-> src.p[1], v |-> v]>>, cl |-> <<>>] : v \in values}
      \cup {[pl |-> <<>>, cl |-> <<[k |-> src.a[1], v |-> tableValue]>>]}

\* one field in focus: a value at one of its paths, a cell under one of its
\* aliases, its narrative phrase
FieldCases(src, narratives) ==
    LET structured ==
            {<<>>}
              \cup {<<[p |-> src.p[1], v |-> v]>> :
                      v \in IF src.p = <<>> THEN {} ELSE LeafValues}
              \cup {<<[p |-> src.p[1], v |-> Null], [p |-> src.p[i], v |-> Num(Unit)]>> :
                      i \in 2..Min(MaxAlt, Len(src.p))}
        cells ==
            {<<>>}
              \cup {<<[k |-> src.a[1], v |-> v]>> : v \in LeafValues}
              \cup {<<[k |-> src.a[1], v |-> Null], [k |-> src.a[i], v |-> Num(Unit)]>> :
                      i \in 2..Min(MaxAlt, Len(src.a))}
        reasons == {Undefined} \cup {Str(t) : t \in narratives}
    IN  {OneEntity(pl, cl, rs) : pl \in structured, cl \in cells, rs \in reasons}

FieldInputs(S) == UNION {FieldCases(S[f], NarrativeOf(f)) : f \in DOMAIN S}

\* a total and its tournament and non-tournament parts
SumCases(direct, t, nt, narratives) ==
    {OneEntity(d.pl \o a.pl \o b.pl, d.cl \o a.cl \o b.cl, rs) :
        d \in SlotOptions(direct, {Num(7 * Unit)}, Num(7 * Unit)),
        a \in SlotOptions(t, CountValues, Num(Unit)),
        b \in SlotOptions(nt, CountValues, Num(Unit)),
        rs \in {Undefined} \cup {Str(n) : n \in narratives}}

SumInputs(S) ==
    UNION {SumCases(S["recent_" \o x], S["tourn_" \o x], S["non_tourn_" \o x],
                    NarrativeOf("recent_" \o x)) :
              x \in {"games", "wins", "draws", "losses"}}

\* a win rate and the wins and games it can be computed from
RateCases(rate, wins, games) ==
    {OneEntity(r.pl \o w.pl \o g.pl, r.cl \o w.cl \o g.cl, Undefined) :
        r \in SlotOptions(rate, {Num(Unit \div 2), Str(<<"x">>)}, Num(42 * Unit)),
        w \in SlotOptions(wins, CountValues, Num(Unit)),
        g \in SlotOptions(games, CountValues, Num(3 * Unit))}

RateInputs(S) ==
    UNION {RateCases(S[side \o "_win_rate"], S[side \o "_wins"], S[side \o "_games"]) :
              side \in {"tourn", "non_tourn"}}

\* the two operands of a gap (each of values, or tableValue in the side
\* table), the side table's own gap, the narrative
GapCases(t, nt, gap, values, tableValue, gapValues, reasons) ==
    {OneEntity(a.pl \o b.pl, a.cl \o b.cl \o g, rs) :
        a \in SlotOptions(t, values, tableValue),
        b \in SlotOptions(nt, values, tableValue),
        g \in {<<>>} \cup {<<[k |-> gap.a[1], v |-> v]>> : v \in gapValues},
        rs \in reasons}

WrGapInputs(S) ==
    GapCases(S.tourn_win_rate, S.non_tourn_win_rate, S.wr_gap,
             RateValues, Num(60 * Unit),
             {Num(12 * Unit + Unit \div 2), Str(<<"x">>)}, {Undefined})

EloGapInputs(S) ==
    GapCases(S.tourn_elo_ratio, S.non_tourn_elo_ratio, S.elo_ratio_gap,
             RatioValues, Num(2 * Unit),
             {Num(Unit \div 4), Str(<<"x">>)}, {Undefined, Str(T_gap), Str(T_tElo)})

\* tournament 7 wins of 10 games, non-tournament 1 win of 5 games, the
\* narrative "flagged over 15 games (gap 0.42)", given as one string or as
\* an array of phrases (or naming 16 games), with and without a side-table row
ScenarioInputs(S) ==
    LET placements ==
            << [p |-> S.tourn_games.p[1],     v |-> Num(10 * Unit)],
               [p |-> S.tourn_wins.p[1],      v |-> Num(7 * Unit)],
               [p |-> S.non_tourn_games.p[1], v |-> Num(5 * Unit)],
               [p |-> S.non_tourn_wins.p[1],  v |-> Num(Unit)] >>
        reasons == {Undefined, Str(T_flagged), Str(T_flagged16),
                    Arr(<<Str(T_games), Str(T_gap)>>),
                    Arr(<<Str(T_upsets), Null>>)}
        tables  == {<<>>, TableOf(<<>>),
                    TableOf(<<[k |-> <<"R", "e", "a", "s", "o", "n", "s">>,
                               v |-> Str(T_flagged)]>>),
                    ToLowerCase(UserName) :> Str(<<"x">>)}
    IN  {[rows |-> <<Entity(UserName, pl, rs)>>, table |-> tb] :
            pl \in {<<>>, placements}, rs \in reasons, tb \in tables}

\* two entities, sorted by their suspicion scores and their names
TwoEntityInputs(S) ==
    LET scores == {<<>>} \cup
                    {<<[p |-> S.suspicion_score.p[1], v |-> v]>> :
                        v \in {Num(Unit), Num(2 * Unit), Str(<<"x">>)}}
    IN  {[rows  |-> <<Entity(UserName, a, Undefined), Entity(OtherName, b, Undefined)>>,
          table |-> TableOf(c)] :
            a \in scores, b \in scores,
            c \in {<<>>, <<[k |-> S.suspicion_score.a[1], v |-> Num(3 * Unit)]>>}}

\* every phrase of the narrative in one text
T_all ==
    T_games \o <<";", " ">> \o T_elo \o <<";", " ">> \o T_tElo \o <<";", " ">>
      \o T_ntElo \o <<";", " ">> \o T_gap \o <<";", " ">> \o T_bail
      \o <<";", " ">> \o T_upsets

\* two entities with the same structured values and the same cells, each
\* with a narrative of its own, held by the structured source or by the
\* Reasons cell of the side table
NarrativePairInputs(S) ==
    LET counts ==
            << [p |-> S.tourn_games.p[1],     v |-> Num(10 * Unit)],
               [p |-> S.tourn_wins.p[1],      v |-> Num(7 * Unit)],
               [p |-> S.non_tourn_games.p[1], v |-> Num(5 * Unit)],
               [p |-> S.non_tourn_wins.p[1],  v |-> Num(Unit)],
               [p |-> S.elo_gain.p[1],        v |-> Num(30 * Unit)] >>
        cells ==
            << [k |-> S.wr_gap.a[1],          v |-> Num(12 * Unit)],
               [k |-> S.elo_loss.a[1],        v |-> Num(20 * Unit)],
               [k |-> S.suspicion_score.a[1], v |-> Num(3 * Unit)] >>
        texts == {Undefined, Str(T_flagged), Str(T_all),
                  Arr(<<Str(T_elo), Str(T_upsets)>>)}
        cell(n) == IF n = Undefined THEN <<>>
                   ELSE <<[k |-> <<"R", "e", "a", "s", "o", "n", "s">>, v |-> n]>>
    IN  {[rows  |-> <<Entity(UserName, pl, n1), Entity(OtherName, pl, n2)>>,
          table |-> (ToLowerCase(UserName) :> Obj(cl))
                      @@ (ToLowerCase(OtherName) :> Obj(cl))] :
            pl \in {<<>>, counts}, cl \in {<<>>, cells}, n1 \in texts, n2 \in texts}
      \cup
        {[rows  |-> <<Entity(UserName, pl, Undefined), Entity(OtherName, pl, Undefined)>>,
          table |-> (ToLowerCase(UserName) :> Obj(cl \o cell(n1)))
                      @@ (ToLowerCase(OtherName) :> Obj(cl \o cell(n2)))] :
            pl \in {<<>>, counts}, cl \in {<<>>, cells},
            n1 \in {Undefined, Str(T_flagged), Str(T_all)},
            n2 \in {Undefined, Str(T_flagged), Str(T_all)}}

\* how many entities one call sorts at most
MaxRows == 4

\* the entities that are sorted: bob 3.2, Alice 3.2, carl without score,
\* dave 5, BOB 3.2 and Carl with the score "x"
SortPool(S) ==
    LET scored(name, v) == Entity(name, <<[p |-> S.suspicion_score.p[1], v |-> v]>>,
                                  Undefined)
    IN  << scored(<<"b", "o", "b">>, Num(3 * Unit + Unit \div 5)),
           scored(<<"A", "l", "i", "c", "e">>, Num(3 * Unit + Unit \div 5)),
           Entity(<<"c", "a", "r", "l">>, <<>>, Undefined),
           scored(<<"d", "a", "v", "e">>, Num(5 * Unit)),
           scored(<<"B", "O", "B">>, Num(3 * Unit + Unit \div 5)),
           scored(<<"C", "a", "r", "l">>, Str(<<"x">>)) >>

\* the sequences of at most n different numbers of 1..m
RECURSIVE ArrangementsUpTo(_, _)
ArrangementsUpTo(n, m) ==
    IF n = 0 THEN {<<>>}
    ELSE ArrangementsUpTo(n - 1, m) \cup
         {Append(x, k) : x \in {y \in ArrangementsUpTo(n - 1, m) : Len(y) = n - 1},
                         k \in 1..m}

Arrangements(n, m) ==
    {x \in ArrangementsUpTo(n, m) : \A i, j \in 1..Len(x) : x[i] = x[j] => i = j}

\* two to MaxRows of these entities, in every order of arrival
SortInputs(S) ==
    {[rows |-> [i \in 1..Len(x) |-> SortPool(S)[x[i]]], table |-> <<>>] :
        x \in {y \in Arrangements(MaxRows, Len(SortPool(S))) : Len(y) >= 2}}

\* an entity without structured source whose side-table row has one column:
\* each alias spelling of each field in turn, holding 1.5
AliasInputs(S) ==
    UNION {{[rows  |-> <<Entity(UserName, <<>>, Undefined)>>,
             table |-> TableOf(<<[k |-> S[f].a[j], v |-> Num(Unit + Unit \div 2)]>>)] :
               j \in 1..Len(S[f].a)} :
           f \in DOMAIN S}

InputsFrom(S) ==
    FieldInputs(S) \cup SumInputs(S) \cup RateInputs(S) \cup WrGapInputs(S)
      \cup EloGapInputs(S) \cup ScenarioInputs(S) \cup TwoEntityInputs(S)
      \cup NarrativePairInputs(S) \cup SortInputs(S) \cup AliasInputs(S)

DownloadInputs == InputsFrom(FieldSources)

InitDownload ==
    /\ \E inp \in DownloadInputs :
          /\ finishedRows = inp.rows
          /\ csvByUser = inp.table
    /\ normIndex = [key \in DOMAIN csvByUser \cup {ProtoKey} |-> Undefined]
    /\ outRows = <<>>
    /\ arg = Undefined
    /\ fn = "none"
    /\ out = NoValue
    /\ calls = 0
    /\ AppIdle

Next == BuildDownloadCsvRowsStrict

Spec == InitDownload /\ [][Next]_vars

(***************************************************************************)
(* Calls of getCSV on one side-table row                                   *)
(***************************************************************************)
\* how many headers a side-table row of these calls has at most
MaxHeaders == 2

\* header spellings: three that normalize to "score", one to "suspicion",
\* three of the tournament elo ratio, and the name of the memoized index
LookupHeaders ==
    { <<"S", "c", "o", "r", "e">>,
      <<"s", "c", "o", "r", "e">>,
      <<"s", "u", "s", "p", "i", "c", "i", "o", "n">>,
      <<"T", " ", "E", "l", "o", " ", "R", "a", "t", "i", "o">>,
      <<"t", "_", "e", "l", "o", "_", "r", "a", "t", "i", "o">>,
      <<"T", "E", "L", "O", "R">>,
      NormIndexKey }

\* cells of a flattened row: null, "", 1, 2
CellValues == {Null, Str(<<>>), Num(Unit), Num(2 * Unit)}

\* the rows of at most n headers, every order of the headers
RECURSIVE RowsUpTo(_)
RowsUpTo(n) ==
    IF n = 0 THEN {<<>>}
    ELSE RowsUpTo(n - 1) \cup
         {Append(r, [k |-> h, v |-> c]) :
             r \in {x \in RowsUpTo(n - 1) : Len(x) = n - 1},
             h \in LookupHeaders, c \in CellValues}

DistinctHeaders(r) == \A i, j \in 1..Len(r) : r[i].k = r[j].k => i = j

\* what csvByUser[...] can be: no row, a non-object, or a row
LookupRows ==
    {Undefined, Null, Str(<<"x">>)} \cup
    {Obj(r) : r \in {x \in RowsUpTo(MaxHeaders) : DistinctHeaders(x)}}

\* the alias bundles looked up
LookupBundles == {A.suspicion, A.tEloRatio, A.reasons}

LookupKey == <<"b", "o", "b">>

InitLookup ==
    /\ \E row \in LookupRows : csvByUser = [key \in {LookupKey} |-> row]
    /\ normIndex = [key \in {LookupKey} |-> Undefined]
    /\ finishedRows = <<>>
    /\ outRows = <<>>
    /\ arg = <<>>
    /\ fn = "none"
    /\ out = NoValue
    /\ calls = 0
    /\ AppIdle

\* one call getCSV(csv, aliases) on the row, with what it leaves on the row
CallGetCSV ==
    /\ fn \in {"none", "getCSV"}
    /\ calls < MaxCalls
    /\ calls' = calls + 1
    /\ fn' = "getCSV"
    /\ \E aliases \in LookupBundles :
          /\ arg' = aliases
          /\ out' = getCSV(csvByUser[LookupKey], normIndex[LookupKey], aliases)
    /\ csvByUser' = [key \in {LookupKey} |->
                        RowAfterLookup(csvByUser[key], normIndex[key])]
    /\ normIndex' = [key \in {LookupKey} |->
                        CacheAfterLookup(csvByUser[key], normIndex[key])]
    /\ UNCHANGED <<finishedRows, outRows>>
    /\ UNCHANGED appVars

NextLookup == CallGetCSV

SpecLookup == InitLookup /\ [][NextLookup]_vars

(***************************************************************************)
(* Calls of pick on one structured source                                  *)
(***************************************************************************)
\* how many values are stored in a structured source of these calls
MaxPlacements == 2

\* the path lists picked: two paths of three components, and a path of one
\* component before a path of two
PickPathLists == {Paths.tEloRatio, Paths.suspicion}

Prefixes(p) == {SubSeq(p, 1, n) : n \in 1..Len(p)}

\* every path and every beginning of a path of the lists
PickPrefixes ==
    UNION {UNION {Prefixes(ps[i]) : i \in 1..Len(ps)} : ps \in PickPathLists}

\* what is stored there: null, 0, 1, a string
PickLeaves == {Null, Num(0), Num(Unit), Str(<<"x">>)}

RECURSIVE PlacementsUpTo(_)
PlacementsUpTo(n) ==
    IF n = 0 THEN {<<>>}
    ELSE PlacementsUpTo(n - 1) \cup
         {Append(x, [p |-> q, v |-> c]) :
             x \in {y \in PlacementsUpTo(n - 1) : Len(y) = n - 1},
             q \in PickPrefixes, c \in PickLeaves}

\* the sources: absent, null, primitives, an array, and objects holding
\* values, objects or primitives along the paths
PickSources ==
    {Undefined, Null, Num(Unit), Str(<<"x">>), Bool(TRUE), Arr(<<>>)} \cup
    {SetPaths(Obj(<<>>), x) : x \in PlacementsUpTo(MaxPlacements)}

InitPick ==
    /\ arg \in [obj : PickSources, paths : PickPathLists]
    /\ fn = "none"
    /\ out = NoValue
    /\ finishedRows = <<>>
    /\ csvByUser = <<>>
    /\ normIndex = <<>>
    /\ outRows = <<>>
    /\ calls = 0
    /\ AppIdle

\* pick(obj, paths) of csv.ts
CallPick ==
    /\ fn = "none"
    /\ fn' = "pick"
    /\ out' = pick(arg.obj, arg.paths)
    /\ UNCHANGED <<arg, calls, downloadVars>>
    /\ UNCHANGED appVars

\* pick(obj, paths) of App.tsx, called as everywhere in App.tsx with an
\* array of paths and no default
CallPickApp ==
    /\ fn = "none"
    /\ fn' = "pickApp"
    /\ out' = pickApp(arg.obj, [arr |-> TRUE, ps |-> arg.paths], Undefined)
    /\ UNCHANGED <<arg, calls, downloadVars>>
    /\ UNCHANGED appVars

NextPick ==
    \/ CallPick
    \/ CallPickApp

SpecPick == InitPick /\ [][NextPick]_vars

(***************************************************************************)
(* Calls of parseFromReasons on one narrative                              *)
(***************************************************************************)
\* how many phrases a narrative of these calls is made of at most
MaxPhrases == 2

\* phrases of a narrative, each with the value of parseFromReasons it is
\* the phrase of (none: a phrase of no value): the seven narratives above,
\* "tournament elo ratio: 1.1", "non-tournament elo ratio: 0.8" and
\* "fair play"
Phrases ==
    [
     games      |-> [field |-> "games", text |-> T_games],
     elo        |-> [field |-> "elo", text |-> T_elo],
     tElo       |-> [field |-> "tElo", text |-> T_tElo],
     ntElo      |-> [field |-> "ntElo", text |-> T_ntElo],
     gap        |-> [field |-> "gap", text |-> T_gap],
     ntSelfBail |-> [field |-> "ntSelfBail", text |-> T_bail],
     upsets     |-> [field |-> "upsets", text |-> T_upsets],
     tEloFull   |-> [field |-> "tElo", text |-> 
         <<"t", "o", "u", "r", "n", "a", "m", "e", "n", "t", " ", "e", "l", "o", " ", "r", "a", "t", "i", "o", ":", " ", "1", ".", "1">>],
     ntEloFull  |-> [field |-> "ntElo", text |-> 
         <<"n", "o", "n", "-", "t", "o", "u", "r", "n", "a", "m", "e", "n", "t", " ", "e", "l", "o", " ", "r", "a", "t", "i", "o", ":", " ", "0", ".", "8">>],
     none       |-> [field |-> "", text |-> 
         <<"f", "a", "i", "r", " ", "p", "l", "a", "y">>]
    ]

RECURSIVE PhraseListsUpTo(_)
PhraseListsUpTo(n) ==
    IF n = 0 THEN {<<>>}
    ELSE PhraseListsUpTo(n - 1) \cup
         {Append(x, ph) : x \in {y \in PhraseListsUpTo(n - 1) : Len(y) = n - 1},
                          ph \in DOMAIN Phrases}

\* the phrases joined with "; "
RECURSIVE JoinPhrases(_)
JoinPhrases(phs) ==
    IF phs = <<>> THEN <<>>
    ELSE IF Len(phs) = 1 THEN Phrases[phs[1]].text
    ELSE Phrases[phs[1]].text \o <<";", " ">> \o JoinPhrases(Tail(phs))

\* the narratives: absent, or a string made of phrases
InitParse ==
    /\ \/ arg = [phrases |-> <<>>, reasons |-> Undefined]
       \/ \E phs \in PhraseListsUpTo(MaxPhrases) :
             arg = [phrases |-> phs, reasons |-> Str(JoinPhrases(phs))]
    /\ fn = "none"
    /\ out = NoValue
    /\ finishedRows = <<>>
    /\ csvByUser = <<>>
    /\ normIndex = <<>>
    /\ outRows = <<>>
    /\ calls = 0
    /\ AppIdle

\* parseFromReasons(reasons)
CallParseFromReasons ==
    /\ fn = "none"
    /\ fn' = "parseFromReasons"
    /\ out' = parseFromReasons(arg.reasons)
    /\ UNCHANGED <<arg, calls, downloadVars>>
    /\ UNCHANGED appVars

NextParse == CallParseFromReasons

SpecParse == InitParse /\ [][NextParse]_vars

(***************************************************************************)
(* Calls of buildDownloadCsvRowsStrict with an entity named "__proto__"    *)
(***************************************************************************)
\* Bob and aL, each with its structured values and with the same cells in
\* its side-table row, and an entity named "__proto__" that has no row in
\* the side table, two or three of them in every order of arrival
ProtoInputs(S) ==
    LET counts ==
            << [p |-> S.tourn_games.p[1], v |-> Num(10 * Unit)],
               [p |-> S.tourn_wins.p[1],  v |-> Num(7 * Unit)] >>
        gain(v) == <<[p |-> S.elo_gain.p[1], v |-> v]>>
        pls   == {<<>>, counts \o gain(Num(30 * Unit)), counts \o gain(Str(<<"x">>))}
        cls   == {<<>>,
                  <<[k |-> S.elo_loss.a[1], v |-> Num(20 * Unit)]>>,
                  <<[k |-> S.elo_gain.a[1], v |-> Num(25 * Unit)],
                    [k |-> S.suspicion_score.a[1], v |-> Num(3 * Unit)]>>}
        pool(a, b) ==
            << Entity(UserName, a, Undefined), Entity(OtherName, b, Undefined),
               Entity(ProtoKey, <<>>, Str(T_flagged)) >>
    IN  {[rows  |-> [i \in 1..Len(x) |-> pool(a, b)[x[i]]],
          table |-> (ToLowerCase(UserName) :> Obj(cl))
                      @@ (ToLowerCase(OtherName) :> Obj(cl))] :
            a \in pls, b \in pls, cl \in cls,
            x \in {y \in Arrangements(3, 3) : Len(y) >= 2}}

InitProto ==
    /\ \E inp \in ProtoInputs(FieldSources) :
          /\ finishedRows = inp.rows
          /\ csvByUser = inp.table
    /\ normIndex = [key \in DOMAIN csvByUser \cup {ProtoKey} |-> Undefined]
    /\ outRows = <<>>
    /\ arg = Undefined
    /\ fn = "none"
    /\ out = NoValue
    /\ calls = 0
    /\ AppIdle

SpecProto == InitProto /\ [][Next]_vars

(***************************************************************************)
(* Properties of the numeric helpers (specification SpecCall)              *)
(***************************************************************************)
Abs(x) == IF x < 0 THEN 0 - x ELSE x

PercentCalled == fn \in {"pct", "pctNumber"}
RatioCalled   == fn \in {"rat", "ratio3"}
CoerceCalled  == fn \in {"num", "toNumberOrNull"}

\* x is the multiple of step nearest to v (a tie either way)
NearestStep(x, v, step) == x % step = 0 /\ 2 * Abs(x - v) <= step

\* C7: asPercent takes a coerced n <= 1 for a fraction and returns n * 100,
\* and returns n itself when n > 1, in both cases rounded to one decimal;
\* 1 gives 100.0, 0.5 gives 50.0, 42 gives 42.0; an argument that coerces to
\* unknown gives unknown.
C7_AsPercentThreshold ==
    PercentCalled =>
        LET n == num(arg) IN
        /\ IsNullish(n) => out = Null
        /\ ~IsNullish(n) /\ n.n <= Unit =>
              out.t = "number" /\ NearestStep(out.n, 100 * n.n, Unit \div 10)
        /\ ~IsNullish(n) /\ n.n > Unit =>
              out.t = "number" /\ NearestStep(out.n, n.n, Unit \div 10)
        /\ arg = Num(Unit) => out = Num(100 * Unit)
        /\ arg = Num(Unit \div 2) => out = Num(50 * Unit)
        /\ arg = Num(42 * Unit) => out = Num(42 * Unit)

C7_Witness ==
    /\ fn = "pct"
    /\ arg = Num(Unit)
    /\ out = Num(100 * Unit)

\* C8: asPercent(x) is unknown or a value >= 0, for every x, negative numbers
\* and strings with a leading '-' included.
C8_PercentNonNegative ==
    PercentCalled /\ out.t = "number" => out.n >= 0

\* C9 as stated: value * 10 (asPercent) and value * 1000 (asRatio3) are
\* rounded to the nearest integer, a tie going away from zero for positive
\* and negative values alike.
C9_TiesAwayFromZero ==
    /\ RatioCalled /\ ~IsNullish(num(arg)) =>
          out = Num(MathRoundHalfAway(num(arg).n, Unit \div 1000) * (Unit \div 1000))
    /\ PercentCalled /\ ~IsNullish(num(arg)) =>
          LET n == num(arg).n
              p == IF n <= Unit THEN 100 * n ELSE n
          IN  out = Num(MathRoundHalfAway(p, Unit \div 10) * (Unit \div 10))

\* x is v rounded to a multiple of step, a tie going up: v - step/2 < x <= v + step/2
RoundedHalfUp(x, v, step) ==
    /\ x % step = 0
    /\ 2 * (x - v) <= step
    /\ 2 * (v - x) < step

\* C9 (amended): value * 10 and value * 1000 are rounded to the nearest
\* integer, a tie going towards +Infinity, so that a negative value half-way
\* between two steps rounds to the step of smaller magnitude;
\* asRatio3(1.23456) = 1.235 and an unknown-producing argument gives unknown.
C9_TiesTowardsPlusInfinity ==
    /\ RatioCalled =>
          LET n == num(arg) IN
          /\ IsNullish(n) => out = Null
          /\ ~IsNullish(n) =>
                out.t = "number" /\ RoundedHalfUp(out.n, n.n, Unit \div 1000)
          /\ arg = Num(123456) => out = Num(123500)
    /\ PercentCalled =>
          LET n == num(arg) IN
          /\ IsNullish(n) => out = Null
          /\ ~IsNullish(n) =>
                /\ out.t = "number"
                /\ RoundedHalfUp(out.n, IF n.n <= Unit THEN 100 * n.n ELSE n.n,
                                 Unit \div 10)

\* a negative tie was rounded: asRatio3(-0.0005) = 0
C9_Witness ==
    /\ fn = "rat"
    /\ arg = Num(0 - (Unit \div 2000))
    /\ out = Num(0)

\* s[i..j] reads -?\d+(\.\d+)? : an optional '-', digits up to e, and
\* optionally '.' and digits up to j
IsNumeralAt(s, i, j, e) ==
    LET b == IF s[i] = "-" THEN i + 1 ELSE i IN
    /\ b <= e /\ e <= j
    /\ \A k \in b..e : s[k] \in Digits
    /\ \/ e = j
       \/ /\ e + 2 <= j
          /\ s[e + 1] = "."
          /\ \A k \in (e + 2)..j : s[k] \in Digits

NumeralTokens(s) ==
    {t \in (1..Len(s)) \X (1..Len(s)) \X (1..Len(s)) :
        t[1] <= t[2] /\ IsNumeralAt(s, t[1], t[2], t[3])}

\* the leftmost token, and the longest of those that start there
FirstToken(s) ==
    CHOOSE t \in NumeralTokens(s) :
        \A u \in NumeralTokens(s) :
            t[1] < u[1] \/ (t[1] = u[1] /\ t[2] >= u[2])

\* the sum over k in lo..e of digit(s[k]) * 10^(e - k), in units
RECURSIVE IntDigitsSum(_, _, _)
IntDigitsSum(s, lo, e) ==
    IF lo > e THEN 0
    ELSE DigitVal(s[lo]) * Pow10(e - lo) * Unit + IntDigitsSum(s, lo + 1, e)

\* the sum over k in lo..j of digit(s[k]) / 10^(k - dot), in units
RECURSIVE FracDigitsSum(_, _, _, _)
FracDigitsSum(s, lo, j, dot) ==
    IF lo > j THEN 0
    ELSE (DigitVal(s[lo]) * Unit) \div Pow10(lo - dot)
           + FracDigitsSum(s, lo + 1, j, dot)

\* the decimal value of the token s[i..j] whose integer part ends at e
TokenValue(s, i, j, e) ==
    LET b   == IF s[i] = "-" THEN i + 1 ELSE i
        mag == IntDigitsSum(s, b, e) + FracDigitsSum(s, e + 2, j, e + 1)
    IN  IF s[i] = "-" THEN 0 - mag ELSE mag

\* C10: coerce is total: a finite number is returned unchanged; NaN and the
\* infinities give unknown; a string gives the value of its leftmost signed
\* decimal numeral token, or unknown when it holds none; null, undefined,
\* booleans, objects and arrays give unknown.
C10_CoerceTotal ==
    CoerceCalled =>
        /\ out.t \in {"number", "null"}
        /\ arg.t = "number" => out = arg
        /\ arg.t \in {"nan", "inf", "ninf"} => out = Null
        /\ arg.t \in {"null", "undefined", "boolean", "object", "array"} => out = Null
        /\ arg.t = "string" /\ NumeralTokens(arg.s) = {} => out = Null
        /\ arg.t = "string" /\ NumeralTokens(arg.s) # {} =>
              LET t == FirstToken(arg.s) IN
              out = Num(TokenValue(arg.s, t[1], t[2], t[3]))

\* a string with junk before a negative numeral was coerced
C10_Witness ==
    /\ fn = "num"
    /\ arg = Str(<<"a", "-", "1">>)
    /\ out = Num(0 - Unit)

(***************************************************************************)
(* Properties of the reconciled rows (specification Spec)                  *)
(***************************************************************************)
Built == fn = "buildDownloadCsvRowsStrict"

\* the finished row and the output row of the same entity, pairwise
RowPairs ==
    UNION {{<<finishedRows[j], outRows[i]>> :
               i \in {k \in 1..Len(outRows) :
                         outRows[k].username = finishedRows[j].username}} :
           j \in 1..Len(finishedRows)}

Known(v) == ~IsNullish(v)

\* what each source holds for field f of a finished row
StructuredValue(row, f) == pick(ResultOf(row), FieldSources[f].p)
TableValue(row, f) == getCSV(CsvOf(row), Undefined, FieldSources[f].a)
NarrativeValue(row, f) ==
    LET parsed == parseFromReasons(ReasonsStr(ResultOf(row), CsvOf(row), Undefined))
    IN  CASE f = "recent_games"            -> parsed.games
          [] f = "elo_ratio"               -> parsed.elo
          [] f = "tourn_elo_ratio"         -> parsed.tElo
          [] f = "non_tourn_elo_ratio"     -> parsed.ntElo
          [] f = "elo_ratio_gap"           -> parsed.gap
          [] f = "nt_self_bail_loss_ratio" -> parsed.ntSelfBail
          [] f = "upset_wins"              -> parsed.upsets
          [] OTHER                         -> Null

\* the same, converted as the field is
Structured(row, f) == Convert(FieldSources[f].kind, StructuredValue(row, f))
Table(row, f) == Convert(FieldSources[f].kind, TableValue(row, f))

\* the value tiers 1 to 3 give for f, unknown if none does
Direct(row, f) ==
    Coalesce(Coalesce(Coalesce(Structured(row, f), Table(row, f)),
                      NarrativeValue(row, f)), Null)

CountNames == {"games", "wins", "draws", "losses"}
Sides == {"tourn", "non_tourn"}
GapFields == {"wr_gap", "elo_ratio_gap"}

\* C1: for every field with dotted paths, when the structured source holds
\* a usable value for it and the side-table row holds a different non-null
\* value under one of its aliases, the output field is the structured one.
C1_StructuredBeatsTable ==
    Built =>
      \A pair \in RowPairs : \A f \in FieldNames :
          LET s == StructuredValue(pair[1], f)
              t == TableValue(pair[1], f)
          IN  (Known(s) /\ Known(Structured(pair[1], f)) /\ Known(t) /\ t # s)
                  => pair[2][f] \in {s, Structured(pair[1], f)}

\* C2 as stated: a non-null side-table gap is the output gap, whatever is
\* known of the two operands.
C2_TableGapBeatsDifference ==
    Built =>
      \A pair \in RowPairs : \A f \in GapFields :
          Known(Table(pair[1], f)) => pair[2][f] = Table(pair[1], f)

\* C2: a derived sum or a rate computed from counts is used only when the
\* structured source, the side table and the narrative gave no value for
\* the field; the two gaps are the difference of their operands whenever
\* both operands are known, also when the side table supplies a gap.
C2_DerivedOnlyWithoutDirect ==
    Built =>
      \A pair \in RowPairs :
          LET row == pair[1]
              o   == pair[2]
          IN  /\ \A x \in CountNames :
                    Known(Direct(row, "recent_" \o x))
                        => o["recent_" \o x] = Direct(row, "recent_" \o x)
              /\ \A side \in Sides :
                    Known(Direct(row, side \o "_win_rate"))
                        => o[side \o "_win_rate"] = Direct(row, side \o "_win_rate")
              /\ (Known(o.tourn_win_rate) /\ Known(o.non_tourn_win_rate))
                    => o.wr_gap =
                         Num(Round1(o.tourn_win_rate.n - o.non_tourn_win_rate.n))
              /\ (Known(o.tourn_elo_ratio) /\ Known(o.non_tourn_elo_ratio))
                    => o.elo_ratio_gap =
                         Num(Round3(o.tourn_elo_ratio.n - o.non_tourn_elo_ratio.n))

\* both win rates are known, the side table has a gap of its own, and the
\* output gap is the difference
C2_Witness ==
    /\ Built
    /\ \E pair \in RowPairs :
          /\ Known(pair[2].tourn_win_rate)
          /\ Known(pair[2].non_tourn_win_rate)
          /\ Known(Table(pair[1], "wr_gap"))
          /\ pair[2].wr_gap # Table(pair[1], "wr_gap")

\* C3 as stated: for the seven fields the narrative can supply, when the
\* structured source has nothing and the side table and the narrative both
\* yield a value, the side-table value is the output.
C3_TableBeatsNarrative ==
    Built =>
      \A pair \in RowPairs : \A f \in NarrativeFields :
          (/\ ~Known(Structured(pair[1], f))
           /\ Known(Table(pair[1], f))
           /\ Known(NarrativeValue(pair[1], f)))
              => pair[2][f] = Table(pair[1], f)

\* elo_ratio_gap is the difference of the two ratios of the output row
DifferenceUsed(o) == Known(o.tourn_elo_ratio) /\ Known(o.non_tourn_elo_ratio)

\* C3: for the seven fields the narrative can supply, the output is the
\* narrative's value only when neither the structured source nor the side
\* table yields one, and the side table's value when the structured source
\* yields none and the side table does; except that elo_ratio_gap is the
\* difference of the two elo ratios whenever both are known.
C3_NarrativeLast ==
    Built =>
      \A pair \in RowPairs : \A f \in NarrativeFields :
          LET row == pair[1]
              o   == pair[2]
              s   == Structured(row, f)
              t   == Table(row, f)
              n   == NarrativeValue(row, f)
          IN  IF f = "elo_ratio_gap" /\ DifferenceUsed(o)
              THEN o[f] = Num(Round3(o.tourn_elo_ratio.n - o.non_tourn_elo_ratio.n))
              ELSE /\ (Known(s) \/ Known(t)) => (o[f] \in {s, t} /\ Known(o[f]))
                   /\ (~Known(s) /\ Known(t)) => o[f] = t
                   /\ (~Known(s) /\ ~Known(t) /\ Known(n)) => o[f] = n

\* the side table and the narrative both give an elo ratio, different ones,
\* the structured source gives none, and the output is the side table's
C3_Witness ==
    /\ Built
    /\ \E pair \in RowPairs :
          /\ ~Known(Structured(pair[1], "elo_ratio"))
          /\ Known(Table(pair[1], "elo_ratio"))
          /\ Known(NarrativeValue(pair[1], "elo_ratio"))
          /\ NarrativeValue(pair[1], "elo_ratio") # Table(pair[1], "elo_ratio")
          /\ pair[2].elo_ratio = Table(pair[1], "elo_ratio")

PercentFields == {f \in FieldNames : FieldSources[f].kind = "pct"}
RatioFields   == {f \in FieldNames : FieldSources[f].kind = "rat"}

\* C4: every numeric field of every output row is the unknown value or a
\* finite number, a multiple of 0.1 for the percentages and of 0.001 for
\* the ratios.
C4_NumericFieldsFiniteOrUnknown ==
    Built =>
      \A i \in 1..Len(outRows) : \A f \in FieldNames :
          \/ outRows[i][f] = Null
          \/ /\ TypeOf(outRows[i][f]) = "number"
             /\ IsFinite(outRows[i][f])
             /\ f \in PercentFields => outRows[i][f].n % (Unit \div 10) = 0
             /\ f \in RatioFields => outRows[i][f].n % (Unit \div 1000) = 0

\* the value the side table or the narrative gives for a gap
GapFallback(row, f) ==
    Coalesce(Coalesce(Table(row, f), NarrativeValue(row, f)), Null)

\* C5: a total without a direct value is the sum of its tournament and
\* non-tournament parts when both are known and unknown when either is
\* unknown (tournament games 10 and non-tournament games unknown give an
\* unknown total, not 10); a gap with an unknown operand is not a
\* difference: it is what the side table or the narrative gives for the gap.
C5_NullPropagation ==
    Built =>
      \A pair \in RowPairs :
          LET row == pair[1]
              o   == pair[2]
          IN  /\ \A x \in CountNames :
                    LET a == o["tourn_" \o x]
                        b == o["non_tourn_" \o x]
                    IN  ~Known(Direct(row, "recent_" \o x))
                           => o["recent_" \o x] =
                                IF Known(a) /\ Known(b) THEN Num(a.n + b.n)
                                ELSE Null
              /\ ~(Known(o.tourn_win_rate) /\ Known(o.non_tourn_win_rate))
                    => o.wr_gap = GapFallback(row, "wr_gap")
              /\ ~(Known(o.tourn_elo_ratio) /\ Known(o.non_tourn_elo_ratio))
                    => o.elo_ratio_gap = GapFallback(row, "elo_ratio_gap")

\* tournament games 10, non-tournament games unknown, total unknown
C5_Witness ==
    /\ Built
    /\ \E i \in 1..Len(outRows) :
          /\ outRows[i].tourn_games = Num(10 * Unit)
          /\ outRows[i].non_tourn_games = Null
          /\ outRows[i].recent_games = Null

\* rate is wins / games * 100 rounded to one decimal (a tie either way)
IsRateOf(rate, wins, games) ==
    LET d == Gcd(wins.n, games.n)
        w == wins.n \div d
        g == games.n \div d
    IN  /\ TypeOf(rate) = "number"
        /\ rate.n % (Unit \div 10) = 0
        /\ 2 * Abs(rate.n * g - 100 * Unit * w) <= (Unit \div 10) * g

\* C6: a win rate that the structured source or the side table supplies is
\* the output; otherwise the output is wins / games * 100 rounded to one
\* decimal when wins and games are known and games > 0, and unknown when
\* games is 0 or unknown or wins is unknown.
C6_RateFromCounts ==
    Built =>
      \A pair \in RowPairs : \A side \in Sides :
          LET row    == pair[1]
              o      == pair[2]
              direct == Coalesce(Structured(row, side \o "_win_rate"),
                                 Table(row, side \o "_win_rate"))
              wins   == o[side \o "_wins"]
              games  == o[side \o "_games"]
              rate   == o[side \o "_win_rate"]
          IN  IF Known(direct) THEN rate = direct
              ELSE IF Known(wins) /\ Known(games) /\ games.n > 0
                   THEN IsRateOf(rate, wins, games)
                   ELSE rate = Null

\* no rate supplied, 1 win of 3 games, the output rate 33.3
C6_Witness ==
    /\ Built
    /\ \E pair \in RowPairs :
          /\ ~Known(Structured(pair[1], "tourn_win_rate"))
          /\ ~Known(Table(pair[1], "tourn_win_rate"))
          /\ pair[2].tourn_wins = Num(Unit)
          /\ pair[2].tourn_games = Num(3 * Unit)
          /\ pair[2].tourn_win_rate = Num(33 * Unit + 3 * (Unit \div 10))

(***************************************************************************)
(* Properties of the side-table lookup (specification SpecLookup)          *)
(***************************************************************************)
Looked == fn = "getCSV"

LookupRow == csvByUser[LookupKey]
LookupCache == normIndex[LookupKey]

\* the headers of row that normalize as alias a does and hold a non-null
\* value
HeaderMatches(row, a) ==
    {i \in 1..Len(row.e) : norm(row.e[i].k) = norm(a) /\ Known(row.e[i].v)}

\* the aliases of the list that have such a header
MatchingAliases(row, aliases) ==
    {i \in 1..Len(aliases) : HeaderMatches(row, aliases[i]) # {}}

\* the least element of a non-empty set of numbers
Least(S) == CHOOSE i \in S : \A j \in S : i <= j

\* C11: getCSV returns the value of the first alias, in list order, whose
\* normalized form is the normalized form of a header holding a non-null
\* value, and aliases without such a header are skipped; without any such
\* alias, or without a row, the result is unknown.
C11_FirstAliasWithValue ==
    Looked =>
        IF NotARow(LookupRow) \/ MatchingAliases(LookupRow, arg) = {}
        THEN out = Undefined
        ELSE \E j \in HeaderMatches(LookupRow,
                                     arg[Least(MatchingAliases(LookupRow, arg))]) :
                out = LookupRow.e[j].v

\* the headers of row that normalize to the same key as header i
SameKey(row, i) == {j \in 1..Len(row.e) : norm(row.e[j].k) = norm(row.e[i].k)}

\* C12: when several headers of a row normalize to the same key, the
\* normalized-key index holds under that key the value of the header
\* registered first.
C12_FirstRegisteredWins ==
    (Looked /\ ~NotARow(LookupRow) /\ LookupCache.t = "object") =>
        \A i \in 1..Len(LookupRow.e) :
            GetProp(LookupCache, norm(LookupRow.e[i].k))
                = LookupRow.e[Least(SameKey(LookupRow, i))].v

\* C13: a lookup leaves the enumerable entries of the side-table row, keys
\* and values, exactly as they were.
C13_RowEntriesUnchanged == [][csvByUser' = csvByUser]_vars

(***************************************************************************)
(* Properties of pick (specification SpecPick)                             *)
(***************************************************************************)
Picked == fn \in {"pick", "pickApp"}

\* the leaf a dotted path leads to in o: each component must be an entry
\* of an object, and nothing is found below a value that is not an object
RECURSIVE PathLeaf(_, _)
PathLeaf(o, p) ==
    IF p = <<>> THEN o
    ELSE IF o.t # "object" THEN Undefined
    ELSE LET hits == {i \in 1..Len(o.e) : o.e[i].k = Head(p)} IN
         IF hits = {} THEN Undefined
         ELSE PathLeaf(o.e[Least(hits)].v, Tail(p))

\* the paths of the list that lead to a non-null leaf
ResolvingPaths(o, paths) == {i \in 1..Len(paths) : Known(PathLeaf(o, paths[i]))}

\* C14: pick returns the leaf of the first path, in list order, that leads
\* to a non-null leaf, and unknown when no path does; it raises for no
\* source, be it absent, a primitive, or an object with a null or a
\* primitive on the way.
C14_PickFirstResolving ==
    Picked =>
        /\ out # Thrown
        /\ IF ResolvingPaths(arg.obj, arg.paths) = {}
           THEN out = Undefined
           ELSE out = PathLeaf(arg.obj,
                               arg.paths[Least(ResolvingPaths(arg.obj, arg.paths))])

\* pick was called on a source whose first path ends at a null or at a
\* primitive before its last component, and the second path gave the value
C14_Witness ==
    /\ fn = "pick"
    /\ arg.paths = Paths.tEloRatio
    /\ arg.obj.t = "object"
    /\ GetProp(arg.obj, "tournament") \in {Null, Str(<<"x">>)}
    /\ Least(ResolvingPaths(arg.obj, arg.paths) \cup {3}) = 2
    /\ out = Num(Unit)

(***************************************************************************)
(* Properties of parseFromReasons (specification SpecParse)                *)
(***************************************************************************)
Parsed == fn = "parseFromReasons"

\* the narrative holds a phrase of value f
HasPhraseOf(f) == \E i \in 1..Len(arg.phrases) : Phrases[arg.phrases[i]].field = f

\* C15: each of the seven values of parseFromReasons is known exactly when
\* the narrative holds the phrase of that value: "non-tournament elo
\* ratio: X" alone gives ntElo and leaves tElo and elo unknown, "tournament
\* elo ratio: X" alone gives tElo and leaves elo unknown, and a narrative
\* without phrase gives seven unknowns.
C15_FieldsFromOwnPhrase ==
    Parsed => \A f \in DOMAIN out : Known(out[f]) <=> HasPhraseOf(f)

(***************************************************************************)
(* Properties of the narrative's reach (specification Spec)                *)
(***************************************************************************)
\* a structured source without its narrative
ResultWithoutReasons(r) ==
    IF r.t # "object" THEN r
    ELSE Obj(SelectSeq(r.e, LAMBDA x : x.k # "reasons"))

\* a side-table row without its narrative cells
CsvWithoutReasons(csv) ==
    IF NotARow(csv) THEN csv
    ELSE Obj(SelectSeq(csv.e, LAMBDA x : norm(x.k) # norm(A.reasons[1])))

\* two finished rows that differ in the narrative only
SameButNarrative(a, b) ==
    /\ ResultWithoutReasons(ResultOf(a)) = ResultWithoutReasons(ResultOf(b))
    /\ CsvWithoutReasons(CsvOf(a)) = CsvWithoutReasons(CsvOf(b))

\* the fields of a row that the narrative must not reach
NarrativeFreeFields ==
    (FieldNames \ NarrativeFields)

\* the pairs of pairs <<finished row, output row>> of two entities that
\* differ in the narrative only
NarrativePairs ==
    {pq \in RowPairs \X RowPairs :
        /\ pq[1][1].username # pq[2][1].username
        /\ SameButNarrative(pq[1][1], pq[2][1])}

\* C16: the rows of two entities that differ in the narrative only agree
\* on every field outside recent_games, the three elo ratios,
\* elo_ratio_gap, nt_self_bail_loss_ratio, upset_wins and reasons.
C16_NarrativeReachesSubsetOnly ==
    Built =>
        \A pq \in NarrativePairs :
            \A f \in NarrativeFreeFields : pq[1][2][f] = pq[2][2][f]

\* two such entities whose rows differ in a value taken from the
\* narrative and agree on known counts and rates
C16_Witness ==
    /\ Built
    /\ \E pq \in NarrativePairs :
          /\ pq[1][2].elo_ratio # pq[2][2].elo_ratio
          /\ pq[1][2].reasons # pq[2][2].reasons
          /\ Known(pq[1][2].tourn_win_rate)
          /\ Known(pq[1][2].wr_gap)
          /\ Known(pq[1][2].elo_gain)

(***************************************************************************)
(* Properties of the order of the rows (specification Spec)                *)
(***************************************************************************)
\* the score of a row as the order sees it: a number, or unknown
ScoreOf(x) == num(x.suspicion_score)

SameScore(a, b) ==
    \/ ~Known(ScoreOf(a)) /\ ~Known(ScoreOf(b))
    \/ Known(ScoreOf(a)) /\ Known(ScoreOf(b)) /\ ScoreOf(a).n = ScoreOf(b).n

HigherScore(a, b) ==
    /\ Known(ScoreOf(a))
    /\ Known(ScoreOf(b)) => ScoreOf(a).n > ScoreOf(b).n

\* name a, lower-cased, comes strictly before name b, lower-cased
NameBefore(a, b) ==
    LET x == ToLowerCase(a)
        y == ToLowerCase(b)
    IN  \/ Len(x) < Len(y) /\ SubSeq(y, 1, Len(x)) = x
        \/ \E k \in 1..Min(Len(x), Len(y)) :
              /\ SubSeq(x, 1, k - 1) = SubSeq(y, 1, k - 1)
              /\ CollationRank(x[k]) < CollationRank(y[k])

\* row a is ordered strictly before row b
Precedes(a, b) ==
    \/ HigherScore(a, b) /\ ~SameScore(a, b)
    \/ SameScore(a, b) /\ NameBefore(a.username, b.username)

Sign(n) == IF n < 0 THEN 0 - 1 ELSE IF n > 0 THEN 1 ELSE 0

OutSet == {outRows[i] : i \in 1..Len(outRows)}

\* C17: the rows come out by score descending, unknown and non-coercible
\* scores after every known score, equal scores by name ascending without
\* regard to case; the comparator is antisymmetric and transitive.
C17_OrderedByScoreThenName ==
    Built =>
        /\ \A i, j \in 1..Len(outRows) :
              i < j => ~Precedes(outRows[j], outRows[i])
        /\ \A a, b \in OutSet :
              /\ Sign(CompareRows(a, b)) = 0 - Sign(CompareRows(b, a))
              /\ CompareRows(a, b) < 0 <=> Precedes(a, b)
        /\ \A a, b, c \in OutSet :
              (CompareRows(a, b) <= 0 /\ CompareRows(b, c) <= 0)
                  => CompareRows(a, c) <= 0

NamesOf(xs) == [i \in 1..Len(xs) |-> xs[i].username]

\* bob 3.2, Alice 3.2, carl unknown, dave 5 came out as dave, Alice, bob,
\* carl
C17_Witness ==
    /\ Built
    /\ NamesOf(finishedRows) = << <<"b", "o", "b">>, <<"A", "l", "i", "c", "e">>,
                                  <<"c", "a", "r", "l">>, <<"d", "a", "v", "e">> >>
    /\ NamesOf(outRows) = << <<"d", "a", "v", "e">>, <<"A", "l", "i", "c", "e">>,
                             <<"b", "o", "b">>, <<"c", "a", "r", "l">> >>

\* the output row of the entity that arrived at place i
OutOf(i) ==
    outRows[CHOOSE k \in 1..Len(outRows) :
                outRows[k].username = finishedRows[i].username]

\* the place the row of arrival i must take: after every row ordered
\* before it, and after the rows that tie with it and arrived earlier
PlaceOf(i) ==
    1 + Cardinality({j \in 1..Len(finishedRows) :
                        \/ Precedes(OutOf(j), OutOf(i))
                        \/ /\ j < i
                           /\ ~Precedes(OutOf(i), OutOf(j))})

\* C18: the output holds every reconciled row once and no other row, and
\* the place of each row is fixed by the order and, among rows that tie on
\* score and name, by the order of arrival.
C18_StablePermutation ==
    Built =>
        /\ Len(outRows) = Len(finishedRows)
        /\ \A i \in 1..Len(finishedRows) :
              /\ Cardinality({k \in 1..Len(outRows) :
                                 outRows[k].username = finishedRows[i].username}) = 1
              /\ outRows[PlaceOf(i)].username = finishedRows[i].username

\* BOB arrived before bob with the same score, and came out before bob
C18_Witness ==
    /\ Built
    /\ \E i, j \in 1..Len(finishedRows) :
          /\ i < j
          /\ finishedRows[i].username = <<"B", "O", "B">>
          /\ finishedRows[j].username = <<"b", "o", "b">>
          /\ PlaceOf(j) = PlaceOf(i) + 1
    /\ Len(finishedRows) >= 3

(***************************************************************************)
(* Properties of a second pass (specification Spec)                        *)
(***************************************************************************)
\* C19: a second pass over the same finished rows and the same side-table
\* rows, which now carry the index memoized by the first pass, returns
\* the rows of the first pass, field for field.
C19_SecondPassSameRows ==
    [][(Built /\ fn' = "buildDownloadCsvRowsStrict") => outRows' = outRows]_vars

\* the second pass has been made over a side-table row that carries a
\* memoized index, and a value of the row came from the side table
C19_Witness ==
    /\ Built
    /\ calls = 2
    /\ \E pair \in RowPairs :
          /\ CacheOf(pair[1]).t = "object"
          /\ \E f \in FieldNames :
                /\ ~Known(Structured(pair[1], f))
                /\ Known(Table(pair[1], f))
                /\ pair[2][f] = Table(pair[1], f)

(***************************************************************************)
(* Properties of the isolation of fields and entities (SpecProto)          *)
(***************************************************************************)
\* the fields whose sources the value of field f is computed from
Deps(f) ==
    {f} \cup
    CASE f = "recent_games"       -> {"tourn_games", "non_tourn_games"}
      [] f = "recent_wins"        -> {"tourn_wins", "non_tourn_wins"}
      [] f = "recent_draws"       -> {"tourn_draws", "non_tourn_draws"}
      [] f = "recent_losses"      -> {"tourn_losses", "non_tourn_losses"}
      [] f = "tourn_win_rate"     -> {"tourn_wins", "tourn_games"}
      [] f = "non_tourn_win_rate" -> {"non_tourn_wins", "non_tourn_games"}
      [] f = "wr_gap"             -> {"tourn_win_rate", "non_tourn_win_rate",
                                      "tourn_wins", "tourn_games",
                                      "non_tourn_wins", "non_tourn_games"}
      [] f = "elo_ratio_gap"      -> {"tourn_elo_ratio", "non_tourn_elo_ratio"}
      [] OTHER                    -> {}

\* what the three sources of a finished row hold for field g
SourcesFor(row, g) ==
    <<StructuredValue(row, g), TableValue(row, g), NarrativeValue(row, g)>>

\* C20: the call returns one row for every entity and raises nothing,
\* whatever the structured source, the side-table row and the narrative
\* are; and a field of a row is fixed by what the sources of that entity
\* hold for that field and for the fields it is computed from: a value
\* missing for another field, or any other entity of the list, changes
\* nothing of it.
C20_OneRowEachFieldsIsolated ==
    Built =>
        /\ Len(outRows) = Len(finishedRows)
        /\ \A i \in 1..Len(finishedRows) :
              Cardinality({k \in 1..Len(outRows) :
                             outRows[k].username = finishedRows[i].username}) = 1
        /\ \A o \in OutSet : \A f \in FieldNames : o[f] # Thrown
        /\ \A pq \in RowPairs \X RowPairs : \A f \in FieldNames :
              (\A g \in Deps(f) : SourcesFor(pq[1][1], g) = SourcesFor(pq[2][1], g))
                  => pq[1][2][f] = pq[2][2][f]

(***************************************************************************)
(* The end-to-end scenario (specification Spec)                            *)
(***************************************************************************)
\* {tournament: {games: 10, wins: 7}, non_tournament: {games: 5, wins: 1}}
ScenarioPlacements ==
    << [p |-> <<"tournament", "games">>,     v |-> Num(10 * Unit)],
       [p |-> <<"tournament", "wins">>,      v |-> Num(7 * Unit)],
       [p |-> <<"non_tournament", "games">>, v |-> Num(5 * Unit)],
       [p |-> <<"non_tournament", "wins">>,  v |-> Num(Unit)] >>

\* the call made with that one entity, the narrative text and no side table
ScenarioCall(text) ==
    /\ Built
    /\ finishedRows = <<Entity(UserName, ScenarioPlacements, Str(text))>>
    /\ csvByUser = <<>>

\* the sum of the two split counts of an output row
SplitSum(o) == sumNN(o.tourn_games, o.non_tourn_games)

\* win rate 70.0 filled in from the counts, gap 0.42 read in the narrative
ScenarioRateAndGap(row, o) ==
    /\ ~Known(Direct(row, "tourn_win_rate"))
    /\ o.tourn_win_rate = Num(70 * Unit)
    /\ ~DifferenceUsed(o)
    /\ ~Known(Table(row, "elo_ratio_gap"))
    /\ o.elo_ratio_gap = NarrativeValue(row, "elo_ratio_gap")
    /\ o.elo_ratio_gap = Num(42 * (Unit \div 100))

\* C21 as stated: in the scenario recent games is 15 and is the derived sum
\* (no path, alias or narrative gave it, so the sum was assigned), the
\* tournament win rate is 70.0 by rate-from-counts and the elo-ratio gap is
\* 0.42 from the narrative.
C21_ScenarioSumRateNarrative ==
    ScenarioCall(T_flagged) =>
        /\ outRows[1].recent_games = Num(15 * Unit)
        /\ ~Known(Direct(finishedRows[1], "recent_games"))
        /\ outRows[1].recent_games = SplitSum(outRows[1])
        /\ ScenarioRateAndGap(finishedRows[1], outRows[1])

\* C21: in the scenario recent games is the count read in the narrative,
\* which is asked before the sum of the split counts: 15 for "over 15
\* games", where the sum is 15 too, and 16 for "over 16 games", where the
\* sum is still 15; the tournament win rate is 70.0 by rate-from-counts and
\* the elo-ratio gap is 0.42 from the narrative.
C21_ScenarioNarrativeRateNarrative ==
    \A text \in {T_flagged, T_flagged16} :
        ScenarioCall(text) =>
            /\ Known(NarrativeValue(finishedRows[1], "recent_games"))
            /\ outRows[1].recent_games = NarrativeValue(finishedRows[1], "recent_games")
            /\ outRows[1].recent_games =
                  Num((IF text = T_flagged THEN 15 ELSE 16) * Unit)
            /\ SplitSum(outRows[1]) = Num(15 * Unit)
            /\ ScenarioRateAndGap(finishedRows[1], outRows[1])

\* the scenario was reconciled: 15 games, 70.0 and 0.42 in its row
C21_Witness ==
    /\ ScenarioCall(T_flagged)
    /\ outRows[1].recent_games = Num(15 * Unit)
    /\ outRows[1].tourn_win_rate = Num(70 * Unit)
    /\ outRows[1].elo_ratio_gap = Num(42 * (Unit \div 100))

(***************************************************************************)
(* The alias bundles (specification Spec)                                  *)
(***************************************************************************)
\* the fields for which the side-table row of a finished row returns a value
FieldsReturned(row) == {f \in FieldNames : Known(TableValue(row, f))}

\* the finished rows whose side-table row has a single column
OneColumnRows ==
    {j \in 1..Len(finishedRows) :
        /\ ~NotARow(CsvOf(finishedRows[j]))
        /\ Len(CsvOf(finishedRows[j]).e) = 1}

\* C24: a side-table row with a single header returns a value for at most
\* one canonical field, whichever alias spelling of whichever field the
\* header is: no two alias bundles share a normalized spelling.
C24_OneHeaderOneField ==
    Built =>
      \A j \in OneColumnRows : Cardinality(FieldsReturned(finishedRows[j])) <= 1

(***************************************************************************)
(* scanEach of api.ts: a pool of workers sharing the index i.  A worker    *)
(* runs without interruption from one await to the next, so one action is  *)
(* the synchronous start of the pool, and one action is what a worker does *)
(* from the settlement of its scan to its next await or to its end.        *)
(***************************************************************************)
\* the reconciliation engine and the helpers are not called
EngineIdle ==
    /\ arg = <<>>
    /\ fn = "none"
    /\ out = NoValue
    /\ finishedRows = <<>>
    /\ csvByUser = <<>>
    /\ normIndex = <<>>
    /\ outRows = <<>>
    /\ calls = 0

\* how long a list is given at most, and the largest pool asked for
MaxNames == 3
MaxConcurrency == 2

Max(a, b) == IF a > b THEN a ELSE b

RECURSIVE ListsUpTo(_, _)
ListsUpTo(S, n) ==
    IF n = 0 THEN {<<>>}
    ELSE ListsUpTo(S, n - 1) \cup
         {Append(x, e) : x \in {y \in ListsUpTo(S, n - 1) : Len(y) = n - 1}, e \in S}

\* the lists given: the same name may come twice
ScanNames == {"bob", "al"}
ScanLists == ListsUpTo(ScanNames, MaxNames)

\* the values given for concurrency: negative, zero, small, and the default 6
Concurrencies == (0 - 1)..MaxConcurrency \cup {6}

\* what the server answers for a name, and the messages of a failed scan
ScanResults(u) ==
    {[username |-> u, suspicion_score |-> k, reasons |-> <<>>] : k \in {0, 3}}
ScanErrors == {"API error 500", "Failed to fetch"}

\* the object handed to onPartial in the catch branch: lines 59-63
Placeholder(u, message) ==
    [username |-> u, suspicion_score |-> 0, reasons |-> <<"Failed: " \o message>>]

\* Array.from({length: n}, ...): a negative length gives no element
ToLength(n) == IF n < 0 THEN 0 ELSE n

\* Math.min(concurrency, Math.max(1, usernames.length)): line 68
WorkerCount(c, n) == ToLength(Min(c, Max(1, n)))

\* an index handed out without being advanced
NextIndexStale(k) == k

\* i++ of line 54: the index after the one taken
NextIndex(k) == k + 1

\* worker w from the test of its loop (line 53) to its await (line 56) or to
\* its end; s holds i, the workers and the scans started
RunWorker(s, w) ==
    IF s.i < Len(usernames)
    THEN [i       |-> NextIndex(s.i),
          workers |-> [s.workers EXCEPT ![w] = [pc |-> "await", pos |-> s.i + 1]],
          started |-> Append(s.started, s.i + 1)]
    ELSE [s EXCEPT !.workers[w] = [pc |-> "done", pos |-> 0]]

\* Array.from calls worker once per element, in turn
RECURSIVE RunWorkers(_, _, _)
RunWorkers(s, w, n) ==
    IF w > n THEN s ELSE RunWorkers(RunWorker(s, w), w + 1, n)

InitScan ==
    /\ EngineIdle
    /\ usernames \in ScanLists
    /\ concurrency \in Concurrencies
    /\ nextI = 0
    /\ workers = <<>>
    /\ started = <<>>
    /\ reported = <<>>
    /\ promise = "none"
    /\ RunIdle

\* the call of scanEach up to await Promise.all(workers): lines 51-71
CallScanEach ==
    /\ promise = "none"
    /\ LET n == WorkerCount(concurrency, Len(usernames))
           s == RunWorkers([i |-> 0,
                            workers |-> [w \in 1..n |-> [pc |-> "new", pos |-> 0]],
                            started |-> <<>>], 1, n)
       IN  /\ nextI' = s.i
           /\ workers' = s.workers
           /\ started' = s.started
    /\ promise' = "pending"
    /\ UNCHANGED <<usernames, concurrency, reported>>
    /\ UNCHANGED <<callVars, downloadVars, calls, tableVars, runVars>>

\* worker w after its scan settled: onPartial is called with r, then the
\* loop goes on
Continue(w, r) ==
    /\ reported' = Append(reported, [pos |-> workers[w].pos, r |-> r])
    /\ LET s == RunWorker([i |-> nextI, workers |-> workers, started |-> started], w)
       IN  /\ nextI' = s.i
           /\ workers' = s.workers
           /\ started' = s.started
    /\ UNCHANGED <<usernames, concurrency, promise>>
    /\ UNCHANGED <<callVars, downloadVars, calls, tableVars, runVars>>

\* the scan a worker awaits resolves: lines 56-57
ScanResolves ==
    \E w \in DOMAIN workers :
        /\ workers[w].pc = "await"
        /\ \E r \in ScanResults(usernames[workers[w].pos]) : Continue(w, r)

\* the scan a worker awaits rejects: lines 58-64
ScanRejects ==
    \E w \in DOMAIN workers :
        /\ workers[w].pc = "await"
        /\ \E m \in ScanErrors :
              Continue(w, Placeholder(usernames[workers[w].pos], m))

\* Promise.all(workers) is fulfilled once every worker has returned
AllWorkersReturned ==
    /\ promise = "pending"
    /\ \A w \in DOMAIN workers : workers[w].pc = "done"
    /\ promise' = "resolved"
    /\ UNCHANGED <<usernames, concurrency, nextI, workers, started, reported>>
    /\ UNCHANGED <<callVars, downloadVars, calls, tableVars, runVars>>

NextScan == CallScanEach \/ ScanResolves \/ ScanRejects \/ AllWorkersReturned

SpecScan == InitScan /\ [][NextScan]_vars

(***************************************************************************)
(* Properties of scanEach (specification SpecScan)                         *)
(***************************************************************************)
Positions == 1..Len(usernames)

\* the scans started for list position p, the calls of onPartial for it
StartsOf(p) == {k \in 1..Len(started) : started[k] = p}
ReportsOf(p) == {k \in 1..Len(reported) : reported[k].pos = p}

\* onPartial got a scan result of that name, or the placeholder of a failure
ReportedRight(x) ==
    \/ x.r \in ScanResults(usernames[x.pos])
    \/ \E m \in ScanErrors : x.r = Placeholder(usernames[x.pos], m)

\* C22: whatever the list and the concurrency, no list position has more
\* than one scan or more than one call of onPartial, every call of onPartial
\* carries the scan result or the placeholder of a failure for its position,
\* and once the promise is resolved every list position has had exactly one
\* scan and exactly one call of onPartial.
C22_OneScanOneReportEach ==
    /\ \A p \in Positions :
          Cardinality(StartsOf(p)) <= 1 /\ Cardinality(ReportsOf(p)) <= 1
    /\ \A k \in 1..Len(reported) : ReportedRight(reported[k])
    /\ promise = "resolved" =>
          \A p \in Positions :
              Cardinality(StartsOf(p)) = 1 /\ Cardinality(ReportsOf(p)) = 1

\* the workers whose scan is in flight
InFlight == {w \in DOMAIN workers : workers[w].pc = "await"}

\* C23: at every moment the scans in flight are at most max(1, concurrency)
\* and at most the length of the list; the positions handed out so far are
\* the first i of the list, each handed out once, in list order, and the
\* workers in flight hold different positions, none of them reported yet.
C23_BoundedPoolNoIndexTwiceNoGap ==
    /\ Cardinality(InFlight) <= Max(1, concurrency)
    /\ Cardinality(InFlight) <= Len(usernames)
    /\ nextI <= Len(usernames)
    /\ started = [k \in 1..nextI |-> k]
    /\ \A v, w \in InFlight : workers[v].pos = workers[w].pos => v = w
    /\ \A w \in InFlight : ReportsOf(workers[w].pos) = {}
    /\ \A p \in 1..nextI :
          ReportsOf(p) = {} <=> \E w \in InFlight : workers[w].pos = p

\* two scans are in flight after a worker has gone on to the third position
C23_Witness ==
    /\ Cardinality(InFlight) = 2
    /\ nextI = 3
    /\ Len(reported) = 1
    /\ concurrency = 2

(***************************************************************************)
(* The raw rows and the side table App.tsx builds from them: completedRows,*)
(* buildRawCsvRows with flattenForCsv, csvByUser.  A row of the results    *)
(* table is a record: username (its characters), status, and when present  *)
(* result, error, notFound, startedAt and finishedAt as JavaScript values. *)
(* The keys of a result are given by their characters here, as the keys of *)
(* a side-table row are.                                                   *)
(***************************************************************************)
K_username   == <<"u", "s", "e", "r", "n", "a", "m", "e">>
K_status     == <<"s", "t", "a", "t", "u", "s">>
K_error      == <<"e", "r", "r", "o", "r">>
K_notFound   == <<"n", "o", "t", "F", "o", "u", "n", "d">>
K_startedAt  == <<"s", "t", "a", "r", "t", "e", "d", "A", "t">>
K_finishedAt == <<"f", "i", "n", "i", "s", "h", "e", "d", "A", "t">>
K_resultJson == <<"r", "e", "s", "u", "l", "t", "_", "j", "s", "o", "n">>
K_User       == <<"U", "s", "e", "r">>
K_user       == <<"u", "s", "e", "r">>

BaseColumns == {K_username, K_status, K_error, K_notFound, K_startedAt, K_finishedAt}

\* the characters of the four statuses
StatusChars ==
    [queued  |-> <<"q", "u", "e", "u", "e", "d">>,
     running |-> <<"r", "u", "n", "n", "i", "n", "g">>,
     done    |-> <<"d", "o", "n", "e">>,
     error   |-> <<"e", "r", "r", "o", "r">>]

\* r.f, undefined when the row has no such field
FieldOf(r, f) == IF f \in DOMAIN r THEN r[f] ELSE Undefined

\* prefix.replace(/_$/, "")
StripUnderscore(prefix) ==
    IF prefix # <<>> /\ prefix[Len(prefix)] = "_"
    THEN SubSeq(prefix, 1, Len(prefix) - 1)
    ELSE prefix

\* JSON.stringify(v): a string, kept as the value it is the text of
JsonStringify(v) == [t |-> "string", json |-> v]

\* flattenForCsv of csv.ts, out as the entries of the object written to
RECURSIVE flattenForCsv(_, _, _)
RECURSIVE FlattenEntries(_, _, _)
flattenForCsv(value, prefix, entries) ==
    IF IsNullish(value) THEN IndexPut(entries, StripUnderscore(prefix), Null)
    ELSE IF value.t = "array"
    THEN IndexPut(entries, StripUnderscore(prefix), JsonStringify(value))
    ELSE IF value.t = "object" THEN FlattenEntries(value.e, prefix, entries)
    ELSE IndexPut(entries, StripUnderscore(prefix), value)

\* for (const [k, v] of Object.entries(value)) flattenForCsv(v, prefix + k + "_", out)
FlattenEntries(es, prefix, entries) ==
    IF es = <<>> THEN entries
    ELSE FlattenEntries(Tail(es), prefix,
                        flattenForCsv(Head(es).v, prefix \o Head(es).k \o <<"_">>,
                                      entries))

\* new Date(ms).toISOString() for a time below one second
ToISOString(ms) ==
    LET DigitChar(d) == CHOOSE c \in Digits : DigitVal(c) = d IN
    <<"1", "9", "7", "0", "-", "0", "1", "-", "0", "1", "T",
      "0", "0", ":", "0", "0", ":", "0", "0", ".">>
      \o <<DigitChar(ms \div 100), DigitChar((ms \div 10) % 10), DigitChar(ms % 10), "Z">>

\* lines 80-87: the base columns of a row
RawBase(r) ==
    \* r.startedAt ? new Date(r.startedAt).toISOString() : ""
    LET IsoOrEmpty(v) == IF Truthy(v) THEN Str(ToISOString(v.n \div Unit)) ELSE Str(<<>>)
    IN  << [k |-> K_username,   v |-> Str(r.username)],
           [k |-> K_status,     v |-> Str(StatusChars[r.status])],
           [k |-> K_error,      v |-> Coalesce(FieldOf(r, "error"), Str(<<>>))],
           [k |-> K_notFound,   v |-> Bool(Truthy(FieldOf(r, "notFound")))],
           [k |-> K_startedAt,  v |-> IsoOrEmpty(FieldOf(r, "startedAt"))],
           [k |-> K_finishedAt, v |-> IsoOrEmpty(FieldOf(r, "finishedAt"))] >>

\* lines 79-94: the raw row of a row
RawRow(r) ==
    IF Truthy(FieldOf(r, "result"))
    THEN Obj(IndexPut(flattenForCsv(r.result, <<>>, RawBase(r)), K_resultJson,
                      JsonStringify(r.result)))
    ELSE Obj(RawBase(r))

\* buildRawCsvRows of csv.ts: the rows with r.result || r.error ||
\* r.notFound, each as its raw row
buildRawCsvRows(rs) ==
    LET RawKept(r) == \/ Truthy(FieldOf(r, "result"))
                      \/ Truthy(FieldOf(r, "error"))
                      \/ Truthy(FieldOf(r, "notFound"))
        kept == SelectSeq(rs, RawKept)
    IN  [k \in 1..Len(kept) |-> RawRow(kept[k])]

\* rows.filter((r) => r.status === "done" && r.result) of App.tsx line 455
CompletedRows(rs) ==
    LET IsCompleted(r) == r.status = "done" /\ Truthy(FieldOf(r, "result"))
    IN  SelectSeq(rs, IsCompleted)

\* (row?.username ?? row?.User ?? row?.user ?? "").toString().toLowerCase()
UnameOf(row) ==
    ToLowerCase(ToStr(Coalesce(Coalesce(Coalesce(GetProp(row, K_username),
                                                  GetProp(row, K_User)),
                                         GetProp(row, K_user)),
                               Str(<<>>))))

\* for (const row of rawCsvRows) if (uname) map[uname] = row
RECURSIVE CsvByUserOf(_, _)
CsvByUserOf(raws, map) ==
    IF raws = <<>> THEN map
    ELSE CsvByUserOf(Tail(raws),
                     IF UnameOf(Head(raws)) # <<>>
                     THEN (UnameOf(Head(raws)) :> Head(raws)) @@ map
                     ELSE map)

\* how many entities the results table holds at most
MaxEntities == 2

\* the names requested, the k-th row of the table is for the k-th of them
RequestNames == << UserName, OtherName, <<"c", "a", "r", "l">>, <<"d", "a", "v", "e">> >>

\* what the server answered: a score alone, and results that hold a key
\* named as a base column, a nested object, an array, a key User
RawResults ==
    LET score == [k |-> <<"s", "u", "s", "p", "i", "c", "i", "o", "n", "_", "s", "c", "o", "r", "e">>,
                  v |-> Num(3 * Unit)]
        one(k, v) == Obj(<<[k |-> k, v |-> v], score>>)
    IN  { Obj(<<score>>),
          one(K_username, Str(<<"b", "o", "b", "b", "y">>)),
          one(K_username, Str(<<"B", "O", "B">>)),
          one(K_username, Str(<<"a", "l">>)),
          one(K_username, Null),
          one(K_status, Str(<<"o", "k">>)),
          one(K_error, Str(<<"n", "o", "n", "e">>)),
          one(K_notFound, Bool(TRUE)),
          one(K_startedAt, Num(7 * Unit)),
          one(K_finishedAt, Null),
          one(<<"s", "t", "a", "r", "t", "e", "d">>, Obj(<<[k |-> <<"A", "t">>, v |-> Num(Unit)]>>)),
          one(<<"t", "o", "u", "r", "n", "a", "m", "e", "n", "t">>,
              Obj(<<[k |-> <<"g", "a", "m", "e", "s">>, v |-> Num(10 * Unit)]>>)),
          one(<<"r", "e", "a", "s", "o", "n", "s">>, Arr(<<Str(T_games)>>)),
          Obj(<<[k |-> K_username, v |-> Null], [k |-> K_User, v |-> Str(<<"a", "L">>)]>>) }

\* the rows a name can have in the table: done with a result, failed,
\* not found, queued
TableRowsOf(name) ==
    {[username |-> name, status |-> "done", result |-> r,
      startedAt |-> Num(5 * Unit), finishedAt |-> Num(12 * Unit)] : r \in RawResults}
      \cup {[username |-> name, status |-> "done", result |-> Obj(<<>>), startedAt |-> Num(0)],
            [username |-> name, status |-> "error", error |-> Str(<<"A", "P", "I">>),
             notFound |-> Bool(FALSE), startedAt |-> Num(5 * Unit),
             finishedAt |-> Num(12 * Unit)],
            [username |-> name, status |-> "queued", startedAt |-> Num(5 * Unit)]}

RECURSIVE TablesUpTo(_)
TablesUpTo(n) ==
    IF n = 0 THEN {<<>>}
    ELSE TablesUpTo(n - 1) \cup
         {Append(t, r) : t \in {x \in TablesUpTo(n - 1) : Len(x) = n - 1},
                         r \in TableRowsOf(RequestNames[n])}

InitRaw ==
    /\ arg = <<>>
    /\ fn = "none"
    /\ out = NoValue
    /\ finishedRows = <<>>
    /\ csvByUser = <<>>
    /\ normIndex = <<>>
    /\ outRows = <<>>
    /\ calls = 0
    /\ ScanIdle
    /\ rows \in TablesUpTo(Min(MaxEntities, Len(RequestNames)))
    /\ rawCsvRows = <<>>
    /\ list = <<>>
    /\ at = 0
    /\ busy = FALSE
    /\ err = ""

\* the memos of App.tsx lines 454-484 and the rows downloadResults hands to
\* buildDownloadCsvRowsStrict
BuildCsvByUser ==
    /\ fn = "none"
    /\ fn' = "csvByUser"
    /\ finishedRows' = CompletedRows(rows)
    /\ rawCsvRows' = buildRawCsvRows(CompletedRows(rows))
    /\ csvByUser' = CsvByUserOf(buildRawCsvRows(CompletedRows(rows)), <<>>)
    /\ normIndex' = <<>>
    /\ UNCHANGED <<arg, out, outRows, calls, rows>>
    /\ UNCHANGED <<scanVars, runVars>>

NextRaw == BuildCsvByUser

SpecRaw == InitRaw /\ [][NextRaw]_vars

(***************************************************************************)
(* Properties of the raw rows (specification SpecRaw)                      *)
(***************************************************************************)
\* C25: there is one raw row per completed row, and it holds in its six
\* base columns the values of that row, whatever the result holds; so for
\* every completed entity
\* the lookup of buildDownloadCsvRowsStrict, csvByUser under the lower-cased
\* requested name, is the raw row of that entity.
C25_BaseColumnsKept ==
    fn = "csvByUser" =>
        /\ Len(rawCsvRows) = Len(finishedRows)
        /\ \A k \in 1..Len(rawCsvRows) : \A c \in BaseColumns :
              GetProp(rawCsvRows[k], c) = GetProp(Obj(RawBase(finishedRows[k])), c)
        /\ \A k \in 1..Len(finishedRows) :
              CsvOf(finishedRows[k]) = RawRow(finishedRows[k])

(***************************************************************************)
(* runScans of App.tsx: the names of the text box are scanned one after    *)
(* the other, and the rows of the results table follow.  The updates of    *)
(* setRows are functions of the previous rows and are applied in the order *)
(* they are queued in.  A row is [username, status] with the result or the *)
(* error message when it has one; its time stamps and its notFound flag    *)
(* are left out, nothing in runScans reads them.                           *)
(***************************************************************************)
\* how many runs are made, and how many names are typed for a run
MaxRuns == 2
MaxList == 3

\* [\s,;]
Separators == {" ", ",", ";"}

\* uniqUsernames of App.tsx
uniqUsernames(input) ==
    LET \* input.split(/[\s,;]+/g), without the empty strings that
        \* filter(Boolean) drops in the end
        RECURSIVE SplitTokens(_, _, _)
        SplitTokens(rest, token, tokens) ==
            LET done == IF token = <<>> THEN tokens ELSE Append(tokens, token) IN
            IF rest = <<>> THEN done
            ELSE IF Head(rest) \in Separators THEN SplitTokens(Tail(rest), <<>>, done)
            ELSE SplitTokens(Tail(rest), Append(token, Head(rest)), tokens)
        \* s.replace(/^"+|"+$/g, "")
        RECURSIVE StripQuotes(_)
        StripQuotes(t) ==
            IF t = <<>> THEN t
            ELSE IF Head(t) = "\"" THEN StripQuotes(Tail(t))
            ELSE IF t[Len(t)] = "\"" THEN StripQuotes(SubSeq(t, 1, Len(t) - 1))
            ELSE t
        \* Array.from(new Set(...)): the first occurrence of each string is kept
        RECURSIVE Uniq(_, _)
        Uniq(tokens, seen) ==
            IF tokens = <<>> THEN seen
            ELSE Uniq(Tail(tokens),
                      IF \E k \in 1..Len(seen) : seen[k] = Head(tokens) THEN seen
                      ELSE Append(seen, Head(tokens)))
        NonEmpty(t) == t # <<>>
        split == SplitTokens(input, <<>>, <<>>)
    IN  Uniq(SelectSeq([k \in 1..Len(split) |-> StripQuotes(split[k])], NonEmpty), <<>>)

\* usernames.includes(name)
Includes(names, name) == \E k \in 1..Len(names) : names[k] = name

\* queue(usernames): the rows of these names are replaced by queued rows
queue(prev, names) ==
    LET Other(r) == ~Includes(names, r.username) IN
    SelectSeq(prev, Other) \o [k \in 1..Len(names) |-> [username |-> names[k], status |-> "queued"]]

SameNameIgnoringCase(r, u) == ToLowerCase(r.username) = ToLowerCase(u)

\* lines 413-417: the rows named u, whatever the case, are set running
MarkRunning(prev, u) ==
    [k \in 1..Len(prev) |->
        IF SameNameIgnoringCase(prev[k], u) THEN [prev[k] EXCEPT !.status = "running"]
        ELSE prev[k]]

\* lines 422-425 and 429-442: the rows named u, whatever the case, are
\* replaced by the row of the outcome
Finish(prev, u, row) ==
    LET Other(r) == ~SameNameIgnoringCase(r, u) IN
    Append(SelectSeq(prev, Other), row)

\* what is typed in the text box: up to MaxList names, some of them twice
\* or in another case, separated by ", ", or one quoted name, or nothing
TypedNames == {UserName, ToLowerCase(UserName), OtherName}

RECURSIVE JoinNames(_)
JoinNames(names) ==
    IF names = <<>> THEN <<>>
    ELSE IF Len(names) = 1 THEN names[1]
    ELSE names[1] \o <<",", " ">> \o JoinNames(Tail(names))

BulkInputs ==
    {JoinNames(names) : names \in ListsUpTo(TypedNames, MaxList)}
      \cup {<<"\"">> \o UserName \o <<"\"", ";">>, <<" ", ",">>}

InitRun ==
    /\ arg = <<>>
    /\ fn = "none"
    /\ out = NoValue
    /\ finishedRows = <<>>
    /\ csvByUser = <<>>
    /\ normIndex = <<>>
    /\ outRows = <<>>
    /\ calls = 0
    /\ ScanIdle
    /\ RunIdle

\* runScans up to its return for want of a name (lines 401-405) or up to
\* the await of the first scan (lines 406-420)
RunScans ==
    /\ ~busy
    /\ calls < MaxRuns
    /\ \E input \in BulkInputs : list' = uniqUsernames(input)
    /\ calls' = calls + 1
    /\ IF list' = <<>>
       THEN /\ err' = "Enter at least one username"
            /\ UNCHANGED <<rows, at, busy>>
       ELSE /\ err' = ""
            /\ busy' = TRUE
            /\ rows' = MarkRunning(queue(rows, list'), list'[1])
            /\ at' = 1
    /\ UNCHANGED rawCsvRows
    /\ UNCHANGED <<callVars, downloadVars, scanVars>>

\* runScans from the settlement of a scan, which left the row `row`, to the
\* await of the next scan or to setBusy(false)
AfterScan(row) ==
    /\ IF at < Len(list)
       THEN /\ rows' = MarkRunning(Finish(rows, list[at], row), list[at + 1])
            /\ at' = at + 1
            /\ busy' = busy
       ELSE /\ rows' = Finish(rows, list[at], row)
            /\ at' = 0
            /\ busy' = FALSE
    /\ UNCHANGED <<rawCsvRows, list, err, calls>>
    /\ UNCHANGED <<callVars, downloadVars, scanVars>>

\* the scan resolves: lines 420-425
ScanSucceeds ==
    /\ busy
    /\ \E r \in ScanResults(list[at]) :
          AfterScan([username |-> list[at], status |-> "done", result |-> r])

\* the scan rejects: lines 426-443
ScanFails ==
    /\ busy
    /\ \E m \in ScanErrors :
          AfterScan([username |-> list[at], status |-> "error", error |-> m])

NextRun == RunScans \/ ScanSucceeds \/ ScanFails

SpecRun == InitRun /\ [][NextRun]_vars

(***************************************************************************)
(* Properties of runScans (specification SpecRun)                          *)
(***************************************************************************)
\* the rows of the table that carry exactly the name u
RowsNamed(rs, u) == {k \in 1..Len(rs) : rs[k].username = u}

\* the moves of a status the claim allows
StatusMoves ==
    {<<"queued", "running">>, <<"running", "done">>, <<"running", "error">>}

\* C26: when a run has finished, every name of the list has exactly one row,
\* with the status done or error, and no row is queued or running; and in
\* every step of a run a row that is there before and after keeps its status
\* or moves queued -> running or running -> done / error.
C26_EveryNameOneFinishedRow ==
    /\ [](( ~busy /\ list # <<>> ) =>
            /\ \A k \in 1..Len(list) :
                  /\ Cardinality(RowsNamed(rows, list[k])) = 1
                  /\ \A j \in RowsNamed(rows, list[k]) : rows[j].status \in {"done", "error"}
            /\ \A j \in 1..Len(rows) : rows[j].status \notin {"queued", "running"})
    /\ [][busy =>
            \A j \in 1..Len(rows) : \A k \in RowsNamed(rows', rows[j].username) :
                \/ rows'[k].status = rows[j].status
                \/ <<rows[j].status, rows'[k].status>> \in StatusMoves]_vars

====
